---- MODULE Spec2Model ----
(***************************************************************************)
(* A model of the review-selection-and-execution pipeline of the           *)
(* MCP code review agent: NodeGitClient (status parsing and selection),    *)
(* SafePathPolicy (path resolution), ConcurrentFileProcessor (bounded      *)
(* dispatch over p-limit) and CodeReviewUseCase (execute / reviewFile).    *)
(*                                                                         *)
(* Strings are sequences of one-character strings, so that slicing,        *)
(* splitting, prefix tests and case folding are computed as the code       *)
(* computes them.  Paths follow the POSIX branch of Node's path module     *)
(* (process.platform is not "win32").                                      *)
(***************************************************************************)
EXTENDS Integers, Sequences, FiniteSets, TLC

VARIABLES
  \* SafePathPolicy.resolve, one call
  pBase, pCand, pOut,
  \* NodeGitClient, one call of status or of filesForReview:
  \* the working tree's entries, the call's position, what it returned, and
  \* how the rev-list command of a status call ended
  gIn, gPc, gOut, gFiles, gAb,
  \* ConcurrentFileProcessor.processFiles, one call: its arguments, the
  \* clamped limit, p-limit's queue and active count, each task's state, and
  \* the promise Promise.all returned (its state, value slots and reason)
  dFiles, dLimit, dMax, dQueue, dActive, dTask, dValues, dAll, dErr,
  \* CodeReviewUseCase.execute, one call: its input, the working tree git
  \* reports on, the files that have grown on disk since the call began,
  \* the call's position, the status and the selection it read,
  \* what it returned, each reviewFile call's position and locals, and the
  \* filesystem operations performed so far
  xIn, wTree, wGrown, xPc, xStatus, xSel, xOut, rTask, ioLog,
  \* the selection of filesForReview over one status snapshot: the
  \* snapshot, and the result returned for each review type asked so far
  sIn, sOut,
  \* FileSuitabilityChecker.check, one call: its configuration and
  \* arguments, and what it returned
  cIn, cOut,
  \* AnalysisOrchestrator.analyze, one call: the orchestrator, the file, the
  \* options and what the strategy's steps meet, and what the call returned
  aIn, aOut,
  \* DependencyContainer: its configuration, its cached instances, and the
  \* use case the last getCodeReviewUseCase returned
  kConfig, kInstances, kUseCase

pathVars == <<pBase, pCand, pOut>>
gitVars == <<gIn, gPc, gOut, gFiles, gAb>>
dispVars == <<dFiles, dLimit, dMax, dQueue, dActive, dTask, dValues, dAll, dErr>>
pipeVars == <<xIn, wTree, wGrown, xPc, xStatus, xSel, xOut, rTask, ioLog>>
selVars == <<sIn, sOut>>
suitVars == <<cIn, cOut>>
anaVars == <<aIn, aOut>>
conVars == <<kConfig, kInstances, kUseCase>>
vars == <<pathVars, gitVars, dispVars, pipeVars, selVars, suitVars, anaVars,
          conVars>>

----------------------------------------------------------------------------
(* Bounds of the model *)

\* longest candidate path, in segments, that the path specification enumerates
MaxSegs == 3

\* most entries of a working tree that the git specification enumerates
MaxStatusLines == 2

\* most files handed to processFiles in the dispatch specification
MaxFiles == 5

\* most entries of the working tree in the pipeline specification
MaxTreeEntries == 2

\* the most paths a status snapshot of the selection specification lists
MaxSnapshotPaths == 3

----------------------------------------------------------------------------
(* String helpers: JavaScript's String methods on character sequences *)

\* F(x), with x evaluated first: every use of it in F sees the value
Once(F(_), x) == CHOOSE r \in { F(v) : v \in {x} } : TRUE

Min(a, b) == IF a < b THEN a ELSE b
Max(a, b) == IF a > b THEN a ELSE b

UpperChars == <<"A","B","C","D","E","F","G","H","I","J","K","L","M",
                "N","O","P","Q","R","S","T","U","V","W","X","Y","Z">>
LowerChars == <<"a","b","c","d","e","f","g","h","i","j","k","l","m",
                "n","o","p","q","r","s","t","u","v","w","x","y","z">>

\* String.prototype.toLowerCase, one character
LowerChar(c) ==
  IF \E i \in 1..26 : UpperChars[i] = c
  THEN LowerChars[CHOOSE i \in 1..26 : UpperChars[i] = c]
  ELSE c

\* String.prototype.toLowerCase
ToLowerCase(s) == [i \in 1..Len(s) |-> LowerChar(s[i])]

\* String.prototype.startsWith
StartsWith(s, prefix) ==
  /\ Len(prefix) <= Len(s)
  /\ SubSeq(s, 1, Len(prefix)) = prefix

\* String.prototype.endsWith
EndsWith(s, suffix) ==
  /\ Len(suffix) <= Len(s)
  /\ SubSeq(s, Len(s) - Len(suffix) + 1, Len(s)) = suffix

\* String.prototype.slice(from) and slice(from, to) with 0-based, non-negative
\* indices
SliceFrom(s, from) == SubSeq(s, Min(from, Len(s)) + 1, Len(s))
Slice(s, from, to) == SubSeq(s, Min(from, Len(s)) + 1, Min(to, Len(s)))

RECURSIVE SplitAcc(_, _, _, _)
SplitAcc(s, seps, cur, acc) ==
  IF s = <<>> THEN Append(acc, cur)
  ELSE IF Head(s) \in seps
       THEN SplitAcc(Tail(s), seps, <<>>, Append(acc, cur))
       ELSE SplitAcc(Tail(s), seps, Append(cur, Head(s)), acc)

\* String.prototype.split on a one-character separator class
Split(s, seps) == SplitAcc(s, seps, <<>>, <<>>)

\* Array.prototype.filter(Boolean) on an array of strings
FilterBoolean(segs) == SelectSeq(segs, LAMBDA x : Len(x) > 0)

RECURSIVE Join(_, _)
\* Array.prototype.join
Join(segs, sep) ==
  IF Len(segs) = 0 THEN <<>>
  ELSE IF Len(segs) = 1 THEN segs[1]
  ELSE segs[1] \o sep \o Join(Tail(segs), sep)

\* String.prototype.replace(/\\/g, "/")
ReplaceBackslashes(s) == [i \in 1..Len(s) |-> IF s[i] = "\\" THEN "/" ELSE s[i]]

----------------------------------------------------------------------------
(* Node's path module, POSIX flavour *)

\* process.cwd(): the working directory of the server process
Cwd == <<"/", "w">>

RECURSIVE NormalizeSegs(_, _, _)
NormalizeSegs(segs, allowAboveRoot, res) ==
  IF Len(segs) = 0 THEN res
  ELSE LET seg == Head(segs)
           next ==
             IF Len(seg) = 0 \/ seg = <<".">> THEN res
             ELSE IF seg = <<".", ".">>
                  THEN IF Len(res) > 0 /\ res[Len(res)] # <<".", ".">>
                       THEN SubSeq(res, 1, Len(res) - 1)
                       ELSE IF allowAboveRoot THEN Append(res, seg) ELSE res
                  ELSE Append(res, seg)
       IN NormalizeSegs(Tail(segs), allowAboveRoot, next)

\* path.posix normalizeString: resolves "." and ".." segments
NormalizeString(path, allowAboveRoot) ==
  Join(NormalizeSegs(Split(path, {"/"}), allowAboveRoot, <<>>), <<"/">>)

\* path.isAbsolute
IsAbsolute(path) == Len(path) > 0 /\ path[1] = "/"

\* path.normalize
Normalize(path) ==
  IF Len(path) = 0 THEN <<".">>
  ELSE LET abs == IsAbsolute(path)
           trailing == path[Len(path)] = "/"
           body == NormalizeString(path, ~abs)
       IN IF Len(body) = 0
          THEN IF abs THEN <<"/">> ELSE IF trailing THEN <<".", "/">> ELSE <<".">>
          ELSE (IF abs THEN <<"/">> ELSE <<>>) \o body
               \o (IF trailing THEN <<"/">> ELSE <<>>)

RECURSIVE ResolveAcc(_, _, _)
\* the right-to-left loop of path.resolve: args still to visit, then cwd
ResolveAcc(args, resolvedPath, usedCwd) ==
  IF IsAbsolute(resolvedPath) THEN resolvedPath
  ELSE IF Len(args) = 0
       THEN IF usedCwd THEN resolvedPath
            ELSE ResolveAcc(args, Cwd \o <<"/">> \o resolvedPath, TRUE)
       ELSE LET path == args[Len(args)]
                rest == SubSeq(args, 1, Len(args) - 1)
            IN IF Len(path) = 0 THEN ResolveAcc(rest, resolvedPath, usedCwd)
               ELSE ResolveAcc(rest, path \o <<"/">> \o resolvedPath, usedCwd)

\* path.resolve(...args)
PathResolve(args) ==
  LET joined == ResolveAcc(args, <<>>, FALSE)
      body == NormalizeString(joined, FALSE)
  IN <<"/">> \o body

----------------------------------------------------------------------------
(* SafePathPolicy *)

\* SafePathPolicy.segmentsEqual (process.platform is not "win32")
segmentsEqual(segments1, segments2) ==
  /\ Len(segments1) = Len(segments2)
  /\ \A i \in 1..Len(segments1) : segments1[i] = segments2[i]

\* SafePathPolicy.isWithin: string prefix test against base + "/"
isWithin(base, target) ==
  LET normalizedBase == ReplaceBackslashes(base)
      normalizedTarget == ReplaceBackslashes(target)
      baseWithSep == IF EndsWith(normalizedBase, <<"/">>)
                     THEN normalizedBase
                     ELSE normalizedBase \o <<"/">>
  IN StartsWith(normalizedTarget, baseWithSep)

\* the length of the longest suffix of baseSegments that is a prefix of
\* inputSegments (the for loop of resolve, from the longest length down)
overlapLength(baseSegments, inputSegments) ==
  LET top == Min(Len(baseSegments), Len(inputSegments))
      hits == {len \in 1..top :
                 segmentsEqual(
                   SubSeq(baseSegments, Len(baseSegments) - len + 1,
                          Len(baseSegments)),
                   SubSeq(inputSegments, 1, len))}
  IN IF hits = {} THEN 0 ELSE CHOOSE len \in hits : \A o \in hits : o <= len

\* the path SafePathPolicy.resolve checks and returns, before the containment
\* test
resolvedPathOf(basePath, inputPath) ==
  LET normalizedBase == Normalize(PathResolve(<<basePath>>))
  IN IF IsAbsolute(inputPath) THEN Normalize(inputPath)
     ELSE LET normalizedInput == Normalize(inputPath)
              baseSegments == FilterBoolean(Split(normalizedBase, {"/", "\\"}))
              inputSegments == FilterBoolean(Split(normalizedInput, {"/", "\\"}))
              overlap == overlapLength(baseSegments, inputSegments)
          IN IF overlap > 0
             THEN LET remaining == SubSeq(inputSegments, overlap + 1,
                                          Len(inputSegments))
                      deduplicatedInput == Join(remaining, <<"/">>)
                  IN Normalize(PathResolve(<<normalizedBase, deduplicatedInput>>))
             ELSE Normalize(PathResolve(<<basePath, inputPath>>))

\* SafePathPolicy.resolve: [kind |-> "ok", path |-> p] or a thrown
\* "Path traversal detected" error
SafeResolve(basePath, inputPath) ==
  LET normalizedBase == Normalize(PathResolve(<<basePath>>))
      normalizedResolved == Normalize(resolvedPathOf(basePath, inputPath))
  IN IF ~isWithin(normalizedBase, normalizedResolved)
     THEN [kind |-> "throw", path |-> inputPath]
     ELSE [kind |-> "ok", path |-> normalizedResolved]

----------------------------------------------------------------------------
(* NodeGitClient *)

\* String.prototype.trim
WhiteSpace == {" ", "\t", "\n", "\r"}

RECURSIVE TrimStart(_)
TrimStart(s) ==
  IF Len(s) > 0 /\ Head(s) \in WhiteSpace THEN TrimStart(Tail(s)) ELSE s

RECURSIVE TrimEnd(_)
TrimEnd(s) ==
  IF Len(s) > 0 /\ s[Len(s)] \in WhiteSpace
  THEN TrimEnd(SubSeq(s, 1, Len(s) - 1))
  ELSE s

Trim(s) == TrimEnd(TrimStart(s))

\* what `git status --porcelain` prints for one entry: the two status
\* characters, a space, and the path, in the rename form `old -> new` when
\* the entry has an original path
PorcelainLine(e) ==
  <<e.x, e.y, " ">>
    \o (IF Len(e.orig) > 0 THEN e.orig \o <<" ", "-", ">", " ">> ELSE <<>>)
    \o e.path

RECURSIVE PorcelainText(_)
\* the whole output: every line ends with a line feed
PorcelainText(entries) ==
  IF Len(entries) = 0 THEN <<>>
  ELSE PorcelainLine(Head(entries)) \o <<"\n">> \o PorcelainText(Tail(entries))

NoLists == [staged |-> <<>>, modified |-> <<>>, untracked |-> <<>>,
            deleted |-> <<>>]

\* the loop body written as an if / else-if chain: one list per line
ParseLineFirstMatch(acc, line) ==
  LET status == Slice(line, 0, 2)
      path == SliceFrom(line, 3)
      stagedStatus == IF Len(status) >= 1 THEN status[1] ELSE "undefined"
      workingStatus == IF Len(status) >= 2 THEN status[2] ELSE "undefined"
      isStaged == stagedStatus \in {"A", "M", "R"}
      isModified == ~isStaged /\ workingStatus = "M"
      isUntracked == ~isStaged /\ ~isModified
                       /\ stagedStatus = "?" /\ workingStatus = "?"
      isDeleted == ~isStaged /\ ~isModified /\ ~isUntracked
                     /\ (stagedStatus = "D" \/ workingStatus = "D")
  IN [staged |-> IF isStaged THEN Append(acc.staged, path) ELSE acc.staged,
      modified |->
        IF isModified THEN Append(acc.modified, path) ELSE acc.modified,
      untracked |->
        IF isUntracked THEN Append(acc.untracked, path) ELSE acc.untracked,
      deleted |->
        IF isDeleted THEN Append(acc.deleted, path) ELSE acc.deleted]

\* the body of status's for loop, for one line
ParseLine(acc, line) ==
  LET status == Slice(line, 0, 2)
      path == SliceFrom(line, 3)
      stagedStatus == IF Len(status) >= 1 THEN status[1] ELSE "undefined"
      workingStatus == IF Len(status) >= 2 THEN status[2] ELSE "undefined"
  IN [staged |->
        IF stagedStatus \in {"A", "M", "R"}
        THEN Append(acc.staged, path) ELSE acc.staged,
      modified |->
        IF workingStatus = "M"
        THEN Append(acc.modified, path) ELSE acc.modified,
      untracked |->
        IF stagedStatus = "?" /\ workingStatus = "?"
        THEN Append(acc.untracked, path) ELSE acc.untracked,
      deleted |->
        IF stagedStatus = "D" \/ workingStatus = "D"
        THEN Append(acc.deleted, path) ELSE acc.deleted]

RECURSIVE ParseLines(_, _)
ParseLines(acc, lines) ==
  IF Len(lines) = 0 THEN acc
  ELSE ParseLines(ParseLine(acc, Head(lines)), Tail(lines))

\* the four lists status builds from the porcelain output
ParsePorcelain(porcelain) ==
  LET lines == SelectSeq(Split(porcelain, {"\n"}),
                         LAMBDA line : Len(Trim(line)) > 0)
  IN ParseLines(NoLists, lines)

\* the ahead/behind counts: the try block around rev-list leaves 0/0 on any
\* exception
AheadBehind(ab) ==
  IF ab.kind = "ok" THEN [ahead |-> ab.ahead, behind |-> ab.behind]
  ELSE [ahead |-> 0, behind |-> 0]

\* NodeGitClient.status, given what the three git commands do: branchRes and
\* porcelainRes are [kind |-> "ok", out |-> ...] or [kind |-> "fail", raw |-> m]
GitStatus(branchRes, ab, porcelainRes) ==
  IF branchRes.kind = "fail"
  THEN [kind |-> "throw",
        msg |-> <<"Git command execution failed: ", branchRes.raw>>]
  ELSE IF porcelainRes.kind = "fail"
  THEN [kind |-> "throw",
        msg |-> <<"Git command execution failed: ", porcelainRes.raw>>]
  ELSE LET lists == ParsePorcelain(porcelainRes.out)
           counts == AheadBehind(ab)
       IN [kind |-> "ok",
           branch |-> branchRes.out,
           ahead |-> counts.ahead,
           behind |-> counts.behind,
           staged |-> lists.staged,
           modified |-> lists.modified,
           untracked |-> lists.untracked,
           deleted |-> lists.deleted]

\* /\.(ts|tsx)$/i.test(file)
IsTsFile(file) ==
  \/ EndsWith(ToLowerCase(file), <<".", "t", "s">>)
  \/ EndsWith(ToLowerCase(file), <<".", "t", "s", "x">>)

RECURSIVE UniqueAcc(_, _)
UniqueAcc(items, acc) ==
  IF Len(items) = 0 THEN acc
  ELSE UniqueAcc(Tail(items),
                 IF \E i \in 1..Len(acc) : acc[i] = Head(items)
                 THEN acc ELSE Append(acc, Head(items)))

\* Array.from(new Set(items)): first occurrences, in order
Unique(items) == UniqueAcc(items, <<>>)

ReviewTypes == {"staged", "modified", "full"}

\* a selection in which `modified` leaves the staged paths out
SelectFilesModifiedOnly(gitStatus, type) ==
  IF type \notin ReviewTypes
  THEN [kind |-> "throw", msg |-> <<"Unknown review type: ", type>>]
  ELSE LET files ==
             IF type = "staged" THEN gitStatus.staged
             ELSE IF type = "modified" THEN gitStatus.modified
                  ELSE gitStatus.staged \o gitStatus.modified
                         \o gitStatus.untracked
           tsFiles == SelectSeq(files, IsTsFile)
           lowered == [i \in 1..Len(tsFiles) |-> ToLowerCase(tsFiles[i])]
       IN [kind |-> "ok", files |-> Unique(lowered)]

\* the selection of filesForReview from the status it has just read
SelectFiles(gitStatus, type) ==
  IF type \notin ReviewTypes
  THEN [kind |-> "throw", msg |-> <<"Unknown review type: ", type>>]
  ELSE LET files ==
             IF type = "staged" THEN gitStatus.staged
             ELSE IF type = "modified"
                  THEN gitStatus.staged \o gitStatus.modified
                  ELSE gitStatus.staged \o gitStatus.modified
                         \o gitStatus.untracked
           tsFiles == SelectSeq(files, IsTsFile)
           lowered == [i \in 1..Len(tsFiles) |-> ToLowerCase(tsFiles[i])]
       IN [kind |-> "ok", files |-> Unique(lowered)]

\* NodeGitClient.filesForReview: reads the status again, then selects; a
\* failing status call propagates
FilesForReview(statusRes, type) ==
  IF statusRes.kind = "throw" THEN [kind |-> "throw", msg |-> statusRes.msg]
  ELSE SelectFiles(statusRes, type)

----------------------------------------------------------------------------
(* Inputs of the git specification *)

IndexCodes == {" ", "A", "M", "R", "D", "?", "U"}
WorkCodes == {" ", "M", "D", "?"}

\* the paths of the working trees of the git specification
EntryPaths == << <<"a", ".", "t", "s">>,
                 <<"B", ".", "t", "s", "x">>,
                 <<"c", ".", "j", "s">> >>

\* the original path of a renamed entry
OrigPath == <<"o", ".", "t", "s">>

\* the characters of the paths, in the order of their byte values
ByteOrder ==
  <<" ", "-", ".", "/", "0", "1", "2", "3", "4", "5", "6", "7", "8", "9", ">">>
    \o UpperChars \o <<"\\", "_">> \o LowerChars

ByteOf(c) == CHOOSE i \in 1..Len(ByteOrder) : ByteOrder[i] = c

RECURSIVE PathBefore(_, _)
\* p sorts before q when their bytes are compared, as git compares paths
PathBefore(p, q) ==
  IF Len(p) = 0 THEN Len(q) > 0
  ELSE IF Len(q) = 0 THEN FALSE
  ELSE IF Head(p) = Head(q) THEN PathBefore(Tail(p), Tail(q))
  ELSE ByteOf(Head(p)) < ByteOf(Head(q))

\* git lists the changes of tracked paths sorted by path (the new path of
\* a rename), and the untracked paths, sorted too, after them
ListedBefore(e, f) ==
  LET untracked(g) == g.x = "?" /\ g.y = "?"
  IN IF untracked(e) = untracked(f) THEN PathBefore(e.path, f.path)
     ELSE untracked(f)

RECURSIVE GitListing(_)
\* the listing `git status --porcelain` prints of a set of entries with
\* different paths
GitListing(entries) ==
  IF entries = {} THEN <<>>
  ELSE LET first == CHOOSE e \in entries :
                      \A f \in entries \ {e} : ListedBefore(e, f)
       IN <<first>> \o GitListing(entries \ {first})

\* entries git can list for the i-th path: every code pair but two blanks;
\* an entry renamed in the index may carry its original path
EntriesAt(i) ==
  ({ [x |-> x, y |-> y, path |-> EntryPaths[i], orig |-> <<>>] :
       x \in IndexCodes, y \in WorkCodes }
     \ { [x |-> " ", y |-> " ", path |-> EntryPaths[i], orig |-> <<>>] })
  \cup
  { [x |-> "R", y |-> y, path |-> EntryPaths[i], orig |-> OrigPath] :
      y \in WorkCodes }

RECURSIVE EntrySets(_)
\* the sets holding one entry for each of the paths numbered in `chosen`
EntrySets(chosen) ==
  IF chosen = {} THEN {{}}
  ELSE LET i == CHOOSE k \in chosen : TRUE
       IN { rest \cup {e} : rest \in EntrySets(chosen \ {i}),
                            e \in EntriesAt(i) }

\* the listings of every working tree that changes at most MaxStatusLines
\* of the paths
TreePool ==
  { GitListing(entries) :
      entries \in UNION { EntrySets(chosen) :
                            chosen \in { c \in SUBSET (1..Len(EntryPaths)) :
                                           Cardinality(c) <= MaxStatusLines } } }

\* outcomes of `git branch --show-current`
BranchResults == { [kind |-> "ok", out |-> "main"],
                   [kind |-> "fail", raw |-> "fatal: not a git repository"] }

\* outcomes of `git rev-list --left-right --count HEAD@{upstream}...HEAD`
AheadBehindResults ==
  { [kind |-> "ok", ahead |-> 1, behind |-> 2],
    [kind |-> "noUpstream", ahead |-> 0, behind |-> 0],
    [kind |-> "otherFailure", ahead |-> 0, behind |-> 0] }

\* outcomes of `git status --porcelain` over the working tree `entries`
PorcelainFail == [kind |-> "fail", raw |-> "fatal: index file corrupt"]
PorcelainOk(entries) == [kind |-> "ok", out |-> PorcelainText(entries)]

TypePool == ReviewTypes \cup {"bogus"}

GitInit ==
  /\ gIn \in TreePool
  /\ gPc = "idle"
  /\ gOut = [kind |-> "none"]
  /\ gFiles = [type |-> "none", res |-> [kind |-> "none"]]
  /\ gAb = "none"

\* one call of NodeGitClient.status
StatusCall ==
  /\ gPc = "idle"
  /\ \E br \in BranchResults, ab \in AheadBehindResults,
        pr \in {PorcelainOk(gIn), PorcelainFail} :
       /\ gOut' = GitStatus(br, ab, pr)
       /\ gAb' = IF br.kind = "ok" THEN ab.kind ELSE "none"
  /\ gPc' = "status"
  /\ UNCHANGED <<gIn, gFiles>>
  /\ UNCHANGED <<pathVars, dispVars, pipeVars, selVars, suitVars,
               anaVars, conVars>>

\* one call of NodeGitClient.filesForReview
FilesForReviewCall ==
  /\ gPc = "idle"
  /\ \E br \in BranchResults, ab \in AheadBehindResults,
        pr \in {PorcelainOk(gIn), PorcelainFail}, type \in TypePool :
       gFiles' = [type |-> type,
                  res |-> FilesForReview(GitStatus(br, ab, pr), type)]
  /\ gPc' = "files"
  /\ UNCHANGED <<gIn, gOut, gAb>>
  /\ UNCHANGED <<pathVars, dispVars, pipeVars, selVars, suitVars,
               anaVars, conVars>>

GitNext == StatusCall \/ FilesForReviewCall

----------------------------------------------------------------------------
(* filesForReview over one status snapshot *)

\* the paths a snapshot may list: two that differ only in case, two other
\* TypeScript files, and a file of another type
SnapPaths == { <<"a", ".", "t", "s">>, <<"A", ".", "t", "s">>,
               <<"b", ".", "t", "s">>, <<"d", ".", "t", "s", "x">>,
               <<"c", ".", "j", "s">> }

Snapshot(staged, modified, untracked) ==
  [kind |-> "ok", branch |-> "main", ahead |-> 0, behind |-> 0,
   staged |-> staged, modified |-> modified, untracked |-> untracked,
   deleted |-> <<>>]

\* every snapshot listing at most MaxSnapshotPaths paths over its three
\* lists: a sequence of paths cut in three
SnapshotPool ==
  { Snapshot(SubSeq(t, 1, i), SubSeq(t, i + 1, j), SubSeq(t, j + 1, Len(t))) :
      <<t, i, j>> \in
        { c \in (UNION { [1..n -> SnapPaths] : n \in 0..MaxSnapshotPaths })
                  \X (0..MaxSnapshotPaths) \X (0..MaxSnapshotPaths) :
            c[2] <= c[3] /\ c[3] <= Len(c[1]) } }

SelIdle ==
  /\ sIn = [kind |-> "none"]
  /\ sOut = <<>>

SelInit ==
  /\ sIn \in SnapshotPool
  /\ sOut = <<>>

\* one call of filesForReview for a review type not asked before, while
\* the status it reads is sIn
SelectCall ==
  /\ \E type \in TypePool \ DOMAIN sOut :
       sOut' = sOut @@ (type :> FilesForReview(sIn, type))
  /\ UNCHANGED sIn
  /\ UNCHANGED <<pathVars, gitVars, dispVars, pipeVars, suitVars,
               anaVars, conVars>>

SelNext == SelectCall

----------------------------------------------------------------------------
(* ConcurrentFileProcessor over p-limit and Promise.all *)

\* the ceiling of the clamp in processFiles
MaxConcurrency == 64

\* A JavaScript number n is [nan |-> FALSE, twice |-> 2n] for n a multiple
\* of 1/2, and NaN is [nan |-> TRUE, twice |-> 0].
Num(n) == [nan |-> FALSE, twice |-> 2 * n]
Half(k) == [nan |-> FALSE, twice |-> k]
NaN == [nan |-> TRUE, twice |-> 0]

\* the clamp with Math.ceil in place of Math.floor
ClampLimitCeil(concurrencyLimit) ==
  LET orOne == IF concurrencyLimit.nan \/ concurrencyLimit.twice = 0
               THEN 2 ELSE concurrencyLimit.twice
      ceil == (orOne + 1) \div 2
  IN Max(1, Min(MaxConcurrency, ceil))

\* Math.max(1, Math.min(64, Math.floor(concurrencyLimit || 1)))
ClampLimit(concurrencyLimit) ==
  LET orOne == IF concurrencyLimit.nan \/ concurrencyLimit.twice = 0
               THEN 2 ELSE concurrencyLimit.twice
      floor == orOne \div 2
  IN Max(1, Min(MaxConcurrency, floor))

EmptySlot == [empty |-> TRUE]

Indices(files) == 1..Len(files)

Running == {i \in DOMAIN dTask : dTask[i].st = "running"}

\* a result array filled in completion order: the first slot still empty
ResultSlotCompletionOrder(i, values) ==
  CHOOSE k \in DOMAIN values :
    /\ values[k] = EmptySlot
    /\ \A m \in 1..(k - 1) : values[m] # EmptySlot

\* the slot of Promise.all's value array that the i-th promise fills
ResultSlot(i, values) == i

\* the error processFiles's catch handler throws in place of err
WrapError(filePath, err) == <<"Failed processing ", filePath, ": ", err>>

\* processFiles up to its return: clamp the limit, hand every file to
\* limit(...), which queues it, and combine the promises with Promise.all
ProcessFilesBegin(files, concurrencyLimit) ==
  /\ dFiles' = files
  /\ dLimit' = concurrencyLimit
  /\ dMax' = ClampLimit(concurrencyLimit)
  /\ dQueue' = [i \in Indices(files) |-> i]
  /\ dActive' = 0
  /\ dTask' = [i \in Indices(files) |-> [st |-> "queued", starts |-> 0]]
  /\ dValues' = [i \in Indices(files) |-> EmptySlot]
  /\ dAll' = IF Len(files) = 0 THEN "fulfilled" ELSE "pending"
  /\ dErr' = <<>>

\* p-limit starts the task at the head of its queue when a slot is free
LimitRun(i) ==
  /\ dAll # "none"
  /\ Len(dQueue) > 0
  /\ i = Head(dQueue)
  /\ dActive < dMax
  /\ dQueue' = Tail(dQueue)
  /\ dActive' = dActive + 1
  /\ dTask' = [dTask EXCEPT ![i] = [st |-> "running", starts |-> @.starts + 1]]

\* the i-th task's promise is fulfilled with value: p-limit frees the slot
\* and Promise.all stores the value, and is fulfilled with the last one
LimitFulfil(i, value) ==
  LET values == [dValues EXCEPT ![ResultSlot(i, dValues)] = value]
  IN /\ dTask[i].st = "running"
     /\ dTask' = [dTask EXCEPT ![i].st = "fulfilled"]
     /\ dActive' = dActive - 1
     /\ dValues' = values
     /\ dAll' = IF dAll = "pending"
                   /\ \A j \in DOMAIN dTask \ {i} : dTask[j].st = "fulfilled"
                THEN "fulfilled" ELSE dAll
     /\ UNCHANGED <<dFiles, dLimit, dMax, dQueue, dErr>>

\* a rejection that never reaches p-limit's next(): the slot stays taken
LimitRejectKeepsSlot(i, err) ==
  /\ dTask[i].st = "running"
  /\ dTask' = [dTask EXCEPT ![i].st = "rejected"]
  /\ dAll' = IF dAll = "pending" THEN "rejected" ELSE dAll
  /\ dErr' = IF dAll = "pending" THEN WrapError(dFiles[i], err) ELSE dErr
  /\ UNCHANGED <<dFiles, dLimit, dMax, dQueue, dActive, dValues>>

\* the i-th task's promise is rejected with err: the catch handler rethrows
\* a wrapped error, p-limit frees the slot, and Promise.all is rejected with
\* the first such error
LimitReject(i, err) ==
  /\ dTask[i].st = "running"
  /\ dTask' = [dTask EXCEPT ![i].st = "rejected"]
  /\ dActive' = dActive - 1
  /\ dAll' = IF dAll = "pending" THEN "rejected" ELSE dAll
  /\ dErr' = IF dAll = "pending" THEN WrapError(dFiles[i], err) ELSE dErr
  /\ UNCHANGED <<dFiles, dLimit, dMax, dQueue, dValues>>

----------------------------------------------------------------------------
(* The dispatch specification: processFiles over a processor whose calls    *)
(* may be fulfilled or rejected                                             *)

FilePool == << <<"a", ".", "t", "s">>, <<"b", ".", "t", "s">>,
               <<"c", ".", "t", "s">>, <<"d", ".", "t", "s">>,
               <<"e", ".", "t", "s">>, <<"f", ".", "t", "s">> >>

\* NaN, -1.5, 0, 0.5, 1, 2, 2.5, 3 and 100
LimitPool == { NaN, Half(-3), Num(0), Half(1), Num(1), Num(2), Half(5),
               Num(3), Num(100) }

DispIdle ==
  /\ dFiles = <<>>
  /\ dLimit = Num(1)
  /\ dMax = 1
  /\ dQueue = <<>>
  /\ dActive = 0
  /\ dTask = <<>>
  /\ dValues = <<>>
  /\ dAll = "none"
  /\ dErr = <<>>

DispInit ==
  /\ dFiles \in { SubSeq(FilePool, 1, n) : n \in 0..Min(MaxFiles, Len(FilePool)) }
  /\ dLimit \in LimitPool
  /\ dMax = 1
  /\ dQueue = <<>>
  /\ dActive = 0
  /\ dTask = <<>>
  /\ dValues = <<>>
  /\ dAll = "none"
  /\ dErr = <<>>

\* the call of processFiles(dFiles, processor, dLimit)
ProcessFilesCall ==
  /\ dAll = "none"
  /\ ProcessFilesBegin(dFiles, dLimit)
  /\ UNCHANGED <<pathVars, gitVars, pipeVars, selVars, suitVars,
               anaVars, conVars>>

\* p-limit starts the next queued task, which calls processor(filePath)
StartTask ==
  /\ \E i \in DOMAIN dTask : LimitRun(i)
  /\ UNCHANGED <<dFiles, dLimit, dMax, dValues, dAll, dErr>>
  /\ UNCHANGED <<pathVars, gitVars, pipeVars, selVars, suitVars,
               anaVars, conVars>>

\* a running processor call is fulfilled with a result for its file
TaskFulfil ==
  /\ \E i \in DOMAIN dTask :
       LimitFulfil(i, [path |-> dFiles[i], status |-> "reviewed"])
  /\ UNCHANGED <<pathVars, gitVars, pipeVars, selVars, suitVars,
               anaVars, conVars>>

\* a running processor call is rejected
TaskReject ==
  /\ \E i \in DOMAIN dTask : LimitReject(i, "boom")
  /\ UNCHANGED <<pathVars, gitVars, pipeVars, selVars, suitVars,
               anaVars, conVars>>

DispNext == ProcessFilesCall \/ StartTask \/ TaskFulfil \/ TaskReject

----------------------------------------------------------------------------
(* Inputs of the path specification *)

\* path segments the candidates are built from: parent and current directory,
\* the segments of the bases, a file name, and a sibling whose name has a
\* base segment as a string prefix
SegPool == { <<".", ".">>, <<".">>, <<"r">>, <<"s">>, <<"a">>, <<"r", "x">> }

SegSeqs == UNION { [1..n -> SegPool] : n \in 1..MaxSegs }

\* trusted bases: /r, /r/s, and the relative r (resolved against Cwd)
BasePool == { <<"/", "r">>, <<"/", "r", "/", "s">>, <<"r">> }

\* the empty candidate, a trailing separator, and absolute candidates whose
\* first segment contains a backslash (one file name on POSIX)
ExtraCands == { <<>>,
                <<"/", "r", "/">>,
                <<"/", "r", "\\", "x", "/", "a">>,
                <<"r", "\\", "x">> }

CandPool ==
  { Join(segs, <<"/">>) : segs \in SegSeqs }
    \cup { <<"/">> \o Join(segs, <<"/">>) : segs \in SegSeqs }
    \cup ExtraCands

NoOut == [kind |-> "none", path |-> <<>>]

PathInit ==
  /\ pBase \in BasePool
  /\ pCand \in CandPool
  /\ pOut = NoOut

\* one call of SafePathPolicy.resolve(pBase, pCand)
ResolveCall ==
  /\ pOut.kind = "none"
  /\ pOut' = SafeResolve(pBase, pCand)
  /\ UNCHANGED <<pBase, pCand>>
  /\ UNCHANGED <<gitVars, dispVars, pipeVars, selVars, suitVars,
               anaVars, conVars>>

PathNext == ResolveCall

----------------------------------------------------------------------------
(* Reference notions of containment, by path segments *)

\* the segments of the canonical form of an absolute path
CanonSegs(abs) == NormalizeSegs(Split(abs, {"/"}), FALSE, <<>>)

\* the segments of the location a candidate names when read against base
TargetSegs(base, cand) ==
  IF IsAbsolute(cand) THEN CanonSegs(cand)
  ELSE CanonSegs(PathResolve(<<base>>) \o <<"/">> \o cand)

IsSegPrefix(a, b) == Len(a) <= Len(b) /\ SubSeq(b, 1, Len(a)) = a

\* segment-aware containment of the candidate's location in base
ContainedIn(base, cand) ==
  IsSegPrefix(CanonSegs(PathResolve(<<base>>)), TargetSegs(base, cand))

----------------------------------------------------------------------------
(* FileSuitabilityChecker *)

\* the character U+0060, which a TLA+ string cannot hold
Backtick == "U+0060"

\* the characters \w and \s of a regular expression match
WordChars ==
  { UpperChars[i] : i \in 1..26 } \cup { LowerChars[i] : i \in 1..26 }
    \cup {"0", "1", "2", "3", "4", "5", "6", "7", "8", "9", "_"}

SpaceChars == {" ", "\t", "\n", "\r"}

\* s holds word from position i on (positions count from 1)
HasAt(s, i, word) ==
  /\ i + Len(word) - 1 <= Len(s)
  /\ SubSeq(s, i, i + Len(word) - 1) = word

\* where the longest run of characters of class that starts at position i
\* ends: the first position from i on that holds another character
RunEnd(s, i, class) ==
  CHOOSE j \in i..(Len(s) + 1) :
    /\ j = Len(s) + 1 \/ s[j] \notin class
    /\ \A k \in i..(j - 1) : s[k] \in class

\* \b between the positions gap and gap + 1: one holds a word character
\* and the other does not
WordBoundary(s, gap) ==
  (gap >= 1 /\ gap <= Len(s) /\ s[gap] \in WordChars)
    # (gap + 1 <= Len(s) /\ s[gap + 1] \in WordChars)

NoMatch == [end |-> 0, name |-> <<>>]

\* keyword\s+(\w+) at position i: where the match ends and what it captures
KeywordNameAt(s, i, keyword) ==
  LET spaces == i + Len(keyword)
      name == RunEnd(s, spaces, SpaceChars)
      end == RunEnd(s, name, WordChars)
  IN IF HasAt(s, i, keyword) /\ name > spaces /\ end > name
     THEN [end |-> end, name |-> SubSeq(s, name, end - 1)]
     ELSE NoMatch

\* const\s+(\w+)\s*=\s*\( at position i
ConstArrowAt(s, i) ==
  LET const == KeywordNameAt(s, i, <<"c", "o", "n", "s", "t">>)
      equals == RunEnd(s, const.end, SpaceChars)
      paren == RunEnd(s, equals + 1, SpaceChars)
  IN IF /\ const.end > 0
        /\ HasAt(s, equals, <<"=">>)
        /\ HasAt(s, paren, <<"(">>)
     THEN [end |-> paren + 1, name |-> const.name]
     ELSE NoMatch

\* function\s+(\w+)|const\s+(\w+)\s*=\s*\( at position i, after a \b when
\* the pattern starts with one
FunctionAt(s, i, bounded) ==
  LET function == KeywordNameAt(s, i, <<"f", "u", "n", "c", "t", "i", "o", "n">>)
  IN IF bounded /\ ~WordBoundary(s, i - 1) THEN NoMatch
     ELSE IF function.end > 0 THEN function
     ELSE ConstArrowAt(s, i)

\* class\s+\w+ at position i
ClassAt(s, i, bounded) ==
  IF bounded /\ ~WordBoundary(s, i - 1) THEN NoMatch
  ELSE KeywordNameAt(s, i, <<"c", "l", "a", "s", "s">>)

RECURSIVE MatchesFrom(_, _, _, _)
\* the matches of a global pattern from position i on, in order: each with
\* its index (from 0), its end and its capture; the search goes on where
\* the last match ended
MatchesFrom(s, i, bounded, pattern) ==
  IF i > Len(s) THEN <<>>
  ELSE LET Rest(m) ==
             IF m.end > 0
             THEN <<[index |-> i - 1, end |-> m.end - 1, name |-> m.name]>>
                    \o MatchesFrom(s, m.end, bounded, pattern)
             ELSE MatchesFrom(s, i + 1, bounded, pattern)
       IN Once(Rest, IF pattern = "function" THEN FunctionAt(s, i, bounded)
                     ELSE ClassAt(s, i, bounded))

FunctionMatches(s, bounded) == MatchesFrom(s, 1, bounded, "function")

ClassMatches(s, bounded) == MatchesFrom(s, 1, bounded, "class")

\* A file's content is described by what check measures of it: its UTF-8
\* byte length, the length of content.split("\n"), and the numbers of
\* matches of the function and class patterns; text holds its characters
\* where the model spells them out.
Content(bytes, lines, functions, classes) ==
  [bytes |-> bytes, lines |-> lines, functions |-> functions,
   classes |-> classes, text |-> <<>>]

NoContent == Content(0, 0, 0, 0)

\* the content with the characters of text, measured as check measures it
Spelled(text) ==
  [bytes |-> Len(text), lines |-> Len(Split(text, {"\n"})),
   functions |-> Len(FunctionMatches(text, TRUE)),
   classes |-> Len(ClassMatches(text, TRUE)), text |-> text]

\* defaultAnalysisConfig
DefaultConfig ==
  [maxFileSize |-> 50 * 1024, maxLines |-> 2500, maxFunctions |-> 50,
   maxClasses |-> 10, concurrency |-> 3]

\* String.prototype.includes
ContainsSub(s, sub) ==
  \E k \in 0..(Len(s) - Len(sub)) : SubSeq(s, k + 1, k + Len(sub)) = sub

\* supportedExtensions [".ts", ".tsx"], compared in lower case
HasSupportedExtension(path) ==
  \E ext \in { <<".", "t", "s">>, <<".", "t", "s", "x">> } :
    EndsWith(ToLowerCase(path), ToLowerCase(ext))

\* excludedPatterns, each tested as a case-insensitive regular expression:
\* \.d\.ts$, \.(test|spec)\.tsx?$, /node_modules/, /dist/, /build/
MatchesExcludedPattern(path) ==
  LET lower == ToLowerCase(path)
  IN \/ EndsWith(lower, <<".", "d", ".", "t", "s">>)
     \/ \E word \in { <<"t", "e", "s", "t">>, <<"s", "p", "e", "c">> },
           ext \in { <<".", "t", "s">>, <<".", "t", "s", "x">> } :
          EndsWith(lower, <<".">> \o word \o ext)
     \/ ContainsSub(lower, <<"/", "n", "o", "d", "e", "_", "m", "o", "d",
                             "u", "l", "e", "s", "/">>)
     \/ ContainsSub(lower, <<"/", "d", "i", "s", "t", "/">>)
     \/ ContainsSub(lower, <<"/", "b", "u", "i", "l", "d", "/">>)

\* a message that keeps its fixed text only
MsgTextOnly(text, args) == [text |-> text, args |-> <<>>]

\* a message: its fixed text and the values interpolated into it
Msg(text, args) == [text |-> text, args |-> args]

\* a limit compared with the value again on the wrong side of the boundary
ExceedsLimitInclusive(actual, limit) == actual >= limit

\* the comparison of each threshold check: actual > limit
ExceedsLimit(actual, limit) == actual > limit

\* a check that goes through the same tests from the last to the first
SuitabilityCheckLastFirst(config, path, content) ==
  IF ExceedsLimit(content.classes, config.maxClasses)
  THEN [suitable |-> FALSE,
        reason |-> Msg("Too many classes",
                       <<content.classes, config.maxClasses>>)]
  ELSE IF ExceedsLimit(content.functions, config.maxFunctions)
  THEN [suitable |-> FALSE,
        reason |-> Msg("Too many functions",
                       <<content.functions, config.maxFunctions>>)]
  ELSE IF ExceedsLimit(content.lines, config.maxLines)
  THEN [suitable |-> FALSE,
        reason |-> Msg("Too many lines", <<content.lines, config.maxLines>>)]
  ELSE IF ExceedsLimit(content.bytes, config.maxFileSize)
  THEN [suitable |-> FALSE,
        reason |-> Msg("File too large", <<content.bytes, config.maxFileSize>>)]
  ELSE IF MatchesExcludedPattern(path)
  THEN [suitable |-> FALSE,
        reason |-> Msg("File matches excluded pattern", <<>>)]
  ELSE IF ~HasSupportedExtension(path)
  THEN [suitable |-> FALSE, reason |-> Msg("Unsupported file type", <<>>)]
  ELSE [suitable |-> TRUE, reason |-> Msg("", <<>>)]

\* FileSuitabilityChecker.check
SuitabilityCheck(config, path, content) ==
  IF ~HasSupportedExtension(path)
  THEN [suitable |-> FALSE, reason |-> Msg("Unsupported file type", <<>>)]
  ELSE IF MatchesExcludedPattern(path)
  THEN [suitable |-> FALSE,
        reason |-> Msg("File matches excluded pattern", <<>>)]
  ELSE IF ExceedsLimit(content.bytes, config.maxFileSize)
  THEN [suitable |-> FALSE,
        reason |-> Msg("File too large", <<content.bytes, config.maxFileSize>>)]
  ELSE IF ExceedsLimit(content.lines, config.maxLines)
  THEN [suitable |-> FALSE,
        reason |-> Msg("Too many lines", <<content.lines, config.maxLines>>)]
  ELSE IF ExceedsLimit(content.functions, config.maxFunctions)
  THEN [suitable |-> FALSE,
        reason |-> Msg("Too many functions",
                       <<content.functions, config.maxFunctions>>)]
  ELSE IF ExceedsLimit(content.classes, config.maxClasses)
  THEN [suitable |-> FALSE,
        reason |-> Msg("Too many classes",
                       <<content.classes, config.maxClasses>>)]
  ELSE [suitable |-> TRUE, reason |-> Msg("", <<>>)]

----------------------------------------------------------------------------
(* The suitability specification: one call of check *)

\* a configuration with small thresholds, besides the default one
SmallConfig ==
  [maxFileSize |-> 40, maxLines |-> 2, maxFunctions |-> 1,
   maxClasses |-> 1, concurrency |-> 1]

ConfigPool == { DefaultConfig, SmallConfig }

\* paths with an allowed extension in either case, another extension, and
\* names the exclusion patterns match
SuitPaths ==
  { <<"a", ".", "t", "s">>, <<"A", ".", "T", "S">>, <<"c", ".", "j", "s">>,
    <<"a", ".", "d", ".", "t", "s">>,
    <<"a", ".", "t", "e", "s", "t", ".", "t", "s">>,
    <<"x", "/", "d", "i", "s", "t", "/", "a", ".", "t", "s">> }

\* contents measuring just below, at and just above each threshold
ContentPool(config) ==
  { Content(bytes, lines, functions, classes) :
      bytes \in { config.maxFileSize - 1, config.maxFileSize,
                  config.maxFileSize + 1 },
      lines \in { config.maxLines, config.maxLines + 1 },
      functions \in { config.maxFunctions, config.maxFunctions + 1 },
      classes \in { config.maxClasses, config.maxClasses + 1 } }

NoCheck == [suitable |-> "none"]

SuitIdle ==
  /\ cIn = [config |-> DefaultConfig, path |-> <<>>, content |-> NoContent]
  /\ cOut = NoCheck

SuitInit ==
  /\ \E config \in ConfigPool :
       cIn \in [config : {config}, path : SuitPaths,
                content : ContentPool(config)]
  /\ cOut = NoCheck

\* suitabilityPolicy.check(path, content)
CheckCall ==
  /\ cOut = NoCheck
  /\ cOut' = SuitabilityCheck(cIn.config, cIn.path, cIn.content)
  /\ UNCHANGED cIn
  /\ UNCHANGED <<pathVars, gitVars, dispVars, pipeVars, selVars,
               anaVars, conVars>>

SuitNext == CheckCall

----------------------------------------------------------------------------
(* The filesystem NodeFileSystem reads, and the working tree git lists *)

RepoPath == <<"/", "r">>

Missing(path) ==
  [exists |-> FALSE, statOk |-> FALSE, size |-> 0, readOk |-> FALSE,
   content |-> NoContent, real |-> path]

File(path, size, content) ==
  [exists |-> TRUE, statOk |-> TRUE, size |-> size, readOk |-> TRUE,
   content |-> content, real |-> path]

\* the contents of the small files: a function without a JSDoc comment, a
\* statement with a template literal, and a console.log call
FunctionSource == Spelled(<<"f","u","n","c","t","i","o","n"," ","f","(",")"," ","{","}","\n">>)
TemplateSource == Spelled(<<"l","e","t"," ","a"," ","="," ",Backtick,"x",Backtick,";">>)
LoggingSource == Spelled(<<"c","o","n","s","o","l","e",".","l","o","g","(","1",")","\n">>)

\* a file whose size is the length of its content
TextFile(path, content) == File(path, content.bytes, content)

\* What existsSync, statSync and readFileSync find at an absolute path, all
\* of which follow symbolic links; real is where the path leads.
\*   /r/a.ts     a small file                  /r/b.ts   3000 lines
\*   /r/d.ts     2 MiB                         /r/e.ts   stat fails
\*   /r/f.ts     unreadable                    /r/l.ts   a link to /e/p.ts
\*   /r\x/y.ts   a file in the directory `r\x` of the root
\*   /r/g.ts     60000 bytes                   /r/h.test.ts   a small file
\* and nothing anywhere else.  The characters of the small files are
\* spelled out; the large ones, which no strategy is given, are described
\* by their measures.
Disk(path) ==
  CASE path = <<"/", "r", "/", "a", ".", "t", "s">> ->
         TextFile(path, FunctionSource)
    [] path = <<"/", "r", "/", "b", ".", "t", "s">> ->
         File(path, 6000, Content(6000, 3000, 0, 0))
    [] path = <<"/", "r", "/", "d", ".", "t", "s">> ->
         File(path, 2 * 1024 * 1024, Content(2 * 1024 * 1024, 1, 0, 0))
    [] path = <<"/", "r", "/", "e", ".", "t", "s">> ->
         [TextFile(path, FunctionSource) EXCEPT !.statOk = FALSE]
    [] path = <<"/", "r", "/", "f", ".", "t", "s">> ->
         [TextFile(path, FunctionSource) EXCEPT !.readOk = FALSE]
    [] path = <<"/", "r", "/", "l", ".", "t", "s">> ->
         [TextFile(path, TemplateSource)
            EXCEPT !.real = <<"/", "e", "/", "p", ".", "t", "s">>]
    [] path = <<"/", "r", "\\", "x", "/", "y", ".", "t", "s">> ->
         TextFile(path, LoggingSource)
    [] path = <<"/", "r", "/", "g", ".", "t", "s">> ->
         File(path, 60000, Content(60000, 10, 1, 1))
    [] path = <<"/", "r", "/", "h", ".", "t", "e", "s", "t", ".", "t", "s">> ->
         TextFile(path, LoggingSource)
    [] OTHER -> Missing(path)

\* the size a file has after it has grown during a run
GrownSize == 2 * 1024 * 1024

\* the filesystem at this moment of a run
DiskNow(path) ==
  IF path \in wGrown
  THEN [Disk(path) EXCEPT !.size = GrownSize,
                          !.content = Content(GrownSize, 10, 1, 1)]
  ELSE Disk(path)

Entry(x, y, path) == [x |-> x, y |-> y, path |-> path, orig |-> <<>>]

\* the entries a working tree of the pipeline specification is drawn from
PipeEntries ==
  << Entry("M", " ", <<"a", ".", "t", "s">>),
     Entry(" ", "M", <<"b", ".", "t", "s">>),
     Entry("?", "?", <<"c", ".", "t", "s">>),
     Entry("A", " ", <<"d", ".", "t", "s">>),
     Entry("M", "M", <<"e", ".", "t", "s">>),
     Entry(" ", "M", <<"f", ".", "t", "s">>),
     Entry("A", " ", <<"l", ".", "t", "s">>),
     Entry("?", "?", <<".", ".", "/", "x", ".", "t", "s">>),
     Entry("?", "?", <<"/", "e", "/", "x", ".", "t", "s">>),
     Entry("?", "?", <<"/", "r", "\\", "x", "/", "y", ".", "t", "s">>),
     Entry("M", " ", <<"g", ".", "t", "s">>),
     Entry("A", " ", <<"h", ".", "t", "e", "s", "t", ".", "t", "s">>) >>

\* the entries whose positions are in `chosen`, as git lists them
PickEntries(chosen) == GitListing({ PipeEntries[k] : k \in chosen })

PipeTrees ==
  { PickEntries(chosen) :
      chosen \in { c \in SUBSET (1..Len(PipeEntries)) :
                     Cardinality(c) <= MaxTreeEntries } }

----------------------------------------------------------------------------
(* AnalysisStrategyFactory, CodeAnalysisStrategy and AnalysisOrchestrator *)

AnalysisTypes == {"codex", "static", "hybrid", "accessibility",
                  "toxic-architect"}

\* what the aiClient argument may be: undefined, an object with the
\* analyze method of the AIClient interface, or an object that also has
\* startThread
AIClients == {"none", "analyze", "thread"}

\* AnalysisStrategyFactory.createStrategy
CreateStrategy(type, aiClient) ==
  IF type \notin AnalysisTypes
  THEN [kind |-> "throw", msg |-> <<"Unknown analysis type: ", type>>]
  ELSE IF type = "static"
  THEN [kind |-> "ok", class |-> "TypeScriptStaticAnalysisStrategy",
        aiClient |-> "none"]
  ELSE IF aiClient = "none"
  THEN [kind |-> "throw",
        msg |-> <<"AIClient is required for ",
                  IF type = "codex" THEN "Codex" ELSE type, " analysis">>]
  ELSE [kind |-> "ok",
        class |-> CASE type \in {"codex", "hybrid"} -> "CodexAnalysisStrategy"
                    [] type = "accessibility" ->
                         "WebAccessibilityAnalysisStrategy"
                    [] type = "toxic-architect" ->
                         "ToxicArchitectAnalysisStrategy",
        aiClient |-> aiClient]

\* CodeAnalysisStrategy.handleError, and the catch block of
\* AnalysisOrchestrator.analyze: the degraded result
HandleError(message) ==
  [context |-> <<"Analysis failed: ">> \o message,
   securityIssues |-> <<>>, performanceIssues |-> <<>>,
   architectureIssues |-> <<>>, logicIssues |-> <<>>, suggestions |-> <<>>]

RECURSIVE ReplaceFrom(_, _, _, _)
\* the replacement from position i on: the search goes on after each match
ReplaceFrom(s, i, pattern, replacement) ==
  IF i > Len(s) THEN <<>>
  ELSE IF HasAt(s, i, pattern)
  THEN replacement \o ReplaceFrom(s, i + Len(pattern), pattern, replacement)
  ELSE <<s[i]>> \o ReplaceFrom(s, i + 1, pattern, replacement)

\* String.prototype.replace with a global pattern of fixed characters
ReplaceAll(s, pattern, replacement) ==
  LET From(v) == ReplaceFrom(v, 1, pattern, replacement)
  IN Once(From, s)

\* escapeCodeBlockDelimiters of the three backend-delegating strategies:
\* three replacements, one after the other, each over the result of the
\* one before
escapeCodeBlockDelimiters(content) ==
  ReplaceAll(
    ReplaceAll(
      ReplaceAll(content, <<Backtick,Backtick,Backtick>>, <<"\\",Backtick,"\\",Backtick,"\\",Backtick>>),
      <<Backtick,Backtick>>, <<"\\",Backtick,"\\",Backtick>>),
    <<Backtick>>, <<"\\",Backtick>>)

\* buildPrompt of the four strategies.  A prompt is the class's fixed text
\* with the values interpolated into it: whether the section that asks for
\* suggestions is there, the file path and the escaped content (the static
\* strategy interpolates the path only).
BuildPrompt(strategy, content, filePath, includeSuggestions) ==
  [template |-> strategy.class,
   suggestionsSection |->
     strategy.class # "TypeScriptStaticAnalysisStrategy"
       /\ includeSuggestions,
   filePath |-> filePath,
   content |-> IF strategy.class = "TypeScriptStaticAnalysisStrategy"
               THEN <<>> ELSE escapeCodeBlockDelimiters(content)]

\* the characters `.` of a regular expression does not match
LineTerminators == {"\n", "\r"}

\* s follows an opening `**`: the length of the shortest (.*?) after which
\* `**` closes the heading, or -1
ClosingBold(s) ==
  LET ks == { k \in 0..(Len(s) - 2) :
                /\ s[k + 1] = "*" /\ s[k + 2] = "*"
                /\ \A j \in 1..k : s[j] \notin LineTerminators }
  IN IF ks = {} THEN -1 ELSE CHOOSE k \in ks : \A m \in ks : k <= m

RECURSIVE SplitBoldAcc(_, _, _)
SplitBoldAcc(s, cur, acc) ==
  IF s = <<>> THEN Append(acc, cur)
  ELSE IF /\ Len(s) >= 4 /\ s[1] = "*" /\ s[2] = "*"
          /\ ClosingBold(SubSeq(s, 3, Len(s))) >= 0
       THEN LET k == ClosingBold(SubSeq(s, 3, Len(s)))
            IN SplitBoldAcc(SubSeq(s, k + 5, Len(s)), <<>>,
                            acc \o <<cur, SubSeq(s, 3, k + 2)>>)
       ELSE SplitBoldAcc(Tail(s), Append(cur, Head(s)), acc)

\* content.split(/\*\*(.*?)\*\*/g): the texts between the headings, with
\* each heading's capture after the text that precedes it
SplitBold(s) == SplitBoldAcc(s, <<>>, <<>>)

RECURSIVE SplitHashAcc(_, _, _, _)
SplitHashAcc(s, marker, cur, acc) ==
  IF s = <<>> THEN Append(acc, cur)
  ELSE IF StartsWith(s, marker)
       THEN LET afterSpace == TrimStart(SubSeq(s, Len(marker) + 1, Len(s)))
                ends == { k \in 0..Len(afterSpace) :
                            /\ k = Len(afterSpace) \/ afterSpace[k + 1] = "\n"
                            /\ \A j \in 1..k :
                                 afterSpace[j] \notin LineTerminators }
            IN IF ends = {}
               THEN SplitHashAcc(Tail(s), marker, Append(cur, Head(s)), acc)
               ELSE LET k == CHOOSE e \in ends : \A m \in ends : e <= m
                    IN SplitHashAcc(SubSeq(afterSpace, k + 1, Len(afterSpace)),
                                    marker, <<>>,
                                    acc \o <<cur, SubSeq(afterSpace, 1, k)>>)
       ELSE SplitHashAcc(Tail(s), marker, Append(cur, Head(s)), acc)

\* content.split(/##\s*(.*?)(?=\n|$)/g), and the same with one `#`, for
\* a content without carriage returns
SplitHash(s, marker) == SplitHashAcc(s, marker, <<>>, <<>>)

\* ToxicArchitectAnalysisStrategy.parseSections: the first pattern that
\* matches splits the content (a `###` heading is matched by `##` before
\* its own pattern is tried, and the fallback finds nothing to split on)
ParseSections(content) ==
  IF Len(SplitBold(content)) > 1 THEN SplitBold(content)
  ELSE IF Len(SplitHash(content, <<"#","#">>)) > 1
  THEN SplitHash(content, <<"#","#">>)
  ELSE IF Len(SplitHash(content, <<"#">>)) > 1
  THEN SplitHash(content, <<"#">>)
  ELSE <<content>>

\* the removal of the Codex CLI header at the head of each parseResponse:
\* everything up to the first line that holds `codex` and not
\* `OpenAI Codex v` is dropped and the rest trimmed
ExtractAnalysis(response) ==
  LET lines == Split(response, {"\n"})
      starts == { i \in 1..Len(lines) :
                    /\ ContainsSub(lines[i], <<"c","o","d","e","x">>)
                    /\ ~ContainsSub(lines[i], <<"O","p","e","n","A","I"," ","C","o","d","e","x"," ","v">>) }
  IN IF starts = {} THEN response
     ELSE LET analysisStart == CHOOSE i \in starts : \A j \in starts : i <= j
          IN Trim(Join(SubSeq(lines, analysisStart + 1, Len(lines)),
                       <<"\n">>))

IncludesAny(section, keywords) ==
  \E keyword \in keywords : ContainsSub(section, keyword)

\* the list CodexAnalysisStrategy.parseResponse pushes a section to, by its
\* lower-cased heading
CodexList(sectionName) ==
  CASE ContainsSub(sectionName, <<"s","e","c","u","r","i","t","y">>) -> "securityIssues"
    [] ContainsSub(sectionName, <<"p","e","r","f","o","r","m","a","n","c","e">>) -> "performanceIssues"
    [] ContainsSub(sectionName, <<"a","r","c","h","i","t","e","c","t","u","r","e">>) -> "architectureIssues"
    [] ContainsSub(sectionName, <<"l","o","g","i","c">>) -> "logicIssues"
    [] ContainsSub(sectionName, <<"s","u","g","g","e","s","t","i","o","n">>) -> "suggestions"
    [] OTHER -> "none"

\* the same for WebAccessibilityAnalysisStrategy.parseResponse
AccessibilityList(sectionName) ==
  CASE IncludesAny(sectionName, {<<"a","c","c","e","s","s","i","b","i","l","i","t","y">>, <<"w","c","a","g">>}) ->
         "securityIssues"
    [] IncludesAny(sectionName, {<<"s","e","m","a","n","t","i","c">>, <<"s","e","o">>}) ->
         "performanceIssues"
    [] IncludesAny(sectionName, {<<"r","e","a","c","t">>, <<"c","o","m","p","o","n","e","n","t">>}) ->
         "architectureIssues"
    [] IncludesAny(sectionName, {<<"p","e","r","f","o","r","m","a","n","c","e">>, <<"u","x">>}) -> "logicIssues"
    [] IncludesAny(sectionName, {<<"r","e","c","o","m","m","e","n","d","a","t","i","o","n">>, <<"i","m","p","r","o","v","e","m","e","n","t">>}) ->
         "suggestions"
    [] OTHER -> "none"

isSolidViolation(section) ==
  IncludesAny(section, {<<"s","o","l","i","d">>, <<"p","r","i","n","c","i","p","l","e">>, <<"s","r","p">>, <<"o","c","p">>, <<"l","s","p">>,
                        <<"i","s","p">>, <<"d","i","p">>})

isCleanCodeViolation(section) ==
  IncludesAny(section, {<<"c","l","e","a","n">>, <<"a","r","c","h","i","t","e","c","t","u","r","e">>, <<"s","e","p","a","r","a","t","i","o","n">>,
                        <<"l","a","y","e","r">>})

isCodeQualityIssue(section) ==
  IncludesAny(section, {<<"q","u","a","l","i","t","y">>, <<"c","o","u","p","l","i","n","g">>, <<"c","o","h","e","s","i","o","n">>, <<"p","a","t","t","e","r","n">>,
                        <<"d","e","s","i","g","n">>, <<"r","e","a","c","t">>, <<"n","e","x","t",".","j","s">>, <<"n","e","x","t","j","s">>,
                        <<"h","o","o","k">>, <<"c","o","m","p","o","n","e","n","t">>})

isFrontendEssential(section) ==
  IncludesAny(section, {<<"p","e","r","f","o","r","m","a","n","c","e">>, <<"a","c","c","e","s","s","i","b","i","l","i","t","y">>, <<"s","e","c","u","r","i","t","y">>,
                        <<"d","x">>, <<"e","s","s","e","n","t","i","a","l","s">>, <<"b","u","n","d","l","e">>, <<"r","e","n","d","e","r">>})

isSuggestion(section) ==
  IncludesAny(section, {<<"f","i","x">>, <<"r","e","c","o","m","m","e","n","d","a","t","i","o","n">>, <<"m","e","s","s">>, <<"s","o","l","u","t","i","o","n">>,
                        <<"i","m","p","r","o","v","e">>})

\* the same for ToxicArchitectAnalysisStrategy.parseResponse, whose last
\* branch pushes every other section to suggestions
ToxicArchitectList(sectionName) ==
  LET normalizedSection == Trim(ToLowerCase(sectionName))
  IN CASE isSolidViolation(normalizedSection) -> "securityIssues"
       [] isCleanCodeViolation(normalizedSection) -> "architectureIssues"
       [] isCodeQualityIssue(normalizedSection) -> "logicIssues"
       [] isFrontendEssential(normalizedSection) -> "performanceIssues"
       [] isSuggestion(normalizedSection) -> "suggestions"
       [] OTHER -> "suggestions"

ListOf(class, sectionName) ==
  CASE class = "CodexAnalysisStrategy" -> CodexList(sectionName)
    [] class = "WebAccessibilityAnalysisStrategy" ->
         AccessibilityList(sectionName)
    [] class = "ToxicArchitectAnalysisStrategy" ->
         ToxicArchitectList(sectionName)

\* the loop `for (let i = 1; i < sections.length; i += 2)`: each heading in
\* lower case with the text that follows it
SectionsOf(class, analysisContent) ==
  LET sections == IF analysisContent = <<>> THEN <<>>
                  ELSE IF class = "ToxicArchitectAnalysisStrategy"
                  THEN ParseSections(analysisContent)
                  ELSE SplitBold(analysisContent)
  IN [j \in 1..(Len(sections) \div 2) |->
        [sectionName |-> ToLowerCase(sections[2 * j]),
         sectionContent |-> sections[2 * j + 1]]]

\* the sectionContent.trim() pushed to one list, in the order of the sections
Pushed(class, sections, list) ==
  LET into == SelectSeq(sections,
                        LAMBDA sec : ListOf(class, sec.sectionName) = list)
  IN [j \in 1..Len(into) |-> Trim(into[j].sectionContent)]

\* parseResponse of the four strategies
ParseResponse(strategy, response) ==
  IF strategy.class = "TypeScriptStaticAnalysisStrategy"
  THEN [context |-> response,
        securityIssues |-> <<>>, performanceIssues |-> <<>>,
        architectureIssues |-> <<>>, logicIssues |-> <<>>,
        suggestions |-> <<>>]
  ELSE LET analysisContent == ExtractAnalysis(response)
           sections == SectionsOf(strategy.class, analysisContent)
       IN [context |-> analysisContent,
           securityIssues |-> Pushed(strategy.class, sections,
                                     "securityIssues"),
           performanceIssues |-> Pushed(strategy.class, sections,
                                        "performanceIssues"),
           architectureIssues |-> Pushed(strategy.class, sections,
                                         "architectureIssues"),
           logicIssues |-> Pushed(strategy.class, sections, "logicIssues"),
           suggestions |-> Pushed(strategy.class, sections, "suggestions")]

Digits == <<"0", "1", "2", "3", "4", "5", "6", "7", "8", "9">>

RECURSIVE NumberChars(_)
\* a natural number interpolated into a template literal
NumberChars(n) ==
  IF n < 10 THEN <<Digits[n + 1]>>
  ELSE NumberChars(n \div 10) \o <<Digits[(n % 10) + 1]>>

\* /\/\/\s*TODO|#\s*TODO/i.test(line)
TodoTest(line) ==
  LET lower == ToLowerCase(line)
      todo == <<"t","o","d","o">>
  IN \E i \in 1..Len(line) :
       \/ /\ HasAt(line, i, <<"/","/">>)
          /\ HasAt(lower, RunEnd(line, i + 2, SpaceChars), todo)
       \/ /\ HasAt(line, i, <<"#">>)
          /\ HasAt(lower, RunEnd(line, i + 1, SpaceChars), todo)

RECURSIVE findFunctionEndFrom(_, _, _, _, _)
\* the loop of findFunctionEnd from index i (indices count from 0)
findFunctionEndFrom(content, i, braceCount, inString, stringChar) ==
  IF i >= Len(content) THEN Len(content)
  ELSE LET char == content[i + 1]
       IN IF ~inString
          THEN IF char \in {"\"", "'", Backtick}
               THEN findFunctionEndFrom(content, i + 1, braceCount, TRUE, char)
               ELSE IF char = "{"
               THEN findFunctionEndFrom(content, i + 1, braceCount + 1,
                                        inString, stringChar)
               ELSE IF char = "}"
               THEN IF braceCount - 1 = 0 THEN i + 1
                    ELSE findFunctionEndFrom(content, i + 1, braceCount - 1,
                                             inString, stringChar)
               ELSE findFunctionEndFrom(content, i + 1, braceCount,
                                        inString, stringChar)
          ELSE IF char = stringChar /\ (i = 0 \/ content[i] # "\\")
               THEN findFunctionEndFrom(content, i + 1, braceCount, FALSE,
                                        stringChar)
               ELSE findFunctionEndFrom(content, i + 1, braceCount,
                                        inString, stringChar)

\* TypeScriptStaticAnalysisStrategy.findFunctionEnd
findFunctionEnd(content, start) ==
  findFunctionEndFrom(content, start, 0, FALSE, <<>>)

\* TypeScriptStaticAnalysisStrategy.checkForCommonIssues: the issues pushed,
\* in order
checkForCommonIssues(content, lines) ==
  LET TodoIssues(todoLines) ==
        [k \in 1..Len(todoLines) |->
           <<"TODO comment found at line ">> \o NumberChars(todoLines[k])
             \o <<": ">> \o Trim(lines[todoLines[k]])]
      functionLines(m) ==
        Len(Split(SubSeq(content, m.index + 1,
                         findFunctionEnd(content, m.index)), {"\n"}))
      LongIssues(longFunctions) ==
        [k \in 1..Len(longFunctions) |->
           <<"Long function detected (">>
             \o NumberChars(functionLines(longFunctions[k]))
             \o <<" lines) - consider breaking into smaller functions">>]
  IN (IF ContainsSub(content, <<"c","o","n","s","o","l","e",".","l","o","g">>)
      THEN << <<"Found console.log statements - consider removing for production">> >>
      ELSE <<>>)
     \o Once(TodoIssues, SelectSeq([i \in 1..Len(lines) |-> i],
                                   LAMBDA i : TodoTest(lines[i])))
     \o Once(LongIssues, SelectSeq(FunctionMatches(content, FALSE),
                                   LAMBDA m : functionLines(m) > 50))

\* TypeScriptStaticAnalysisStrategy.generateSuggestions
generateSuggestions(content, lines) ==
  LET beforeFunction(m) ==
        SubSeq(content, Max(0, m.index - 200) + 1, m.index)
      Suggest(undocumented) ==
        [k \in 1..Len(undocumented) |->
           <<"Consider adding JSDoc documentation for function: ">>
             \o undocumented[k].name]
  IN Once(Suggest, SelectSeq(FunctionMatches(content, FALSE),
                             LAMBDA m : ~ContainsSub(beforeFunction(m),
                                                     <<"/","*","*">>)))
     \o (IF \E i \in 1..Len(content) :
              KeywordNameAt(content, i, <<"l","e","t">>).end > 0
         THEN << <<"Consider using const instead of let for variables that are not reassigned">> >>
         ELSE <<>>)

\* TypeScriptStaticAnalysisStrategy.countFunctions
countFunctions(content) == Len(FunctionMatches(content, FALSE))

\* TypeScriptStaticAnalysisStrategy.countClasses
countClasses(content) == Len(ClassMatches(content, FALSE))

\* the number of matches of new RegExp(`\\b${keyword}\\b`, "g")
KeywordCount(content, keyword) ==
  Cardinality({ i \in 1..Len(content) :
                  /\ HasAt(content, i, keyword)
                  /\ WordBoundary(content, i - 1)
                  /\ WordBoundary(content, i + Len(keyword) - 1) })

\* TypeScriptStaticAnalysisStrategy.calculateComplexity.  The pattern built
\* for the keyword `||` is \b||\b, an alternation with an empty branch: it
\* matches the empty string at every index from 0 to the length.
calculateComplexity(content) ==
  1 + KeywordCount(content, <<"i","f">>) + KeywordCount(content, <<"e","l","s","e">>)
    + KeywordCount(content, <<"f","o","r">>) + KeywordCount(content, <<"w","h","i","l","e">>)
    + KeywordCount(content, <<"s","w","i","t","c","h">>) + KeywordCount(content, <<"c","a","s","e">>)
    + KeywordCount(content, <<"c","a","t","c","h">>) + KeywordCount(content, <<"&","&">>)
    + (Len(content) + 1)

\* TypeScriptStaticAnalysisStrategy.analyzeTypeScriptCode
analyzeTypeScriptCode(content, filePath) ==
  LET lines == Split(content, {"\n"})
  IN [context |-> <<"Static analysis of ">> \o filePath,
      issues |-> checkForCommonIssues(content, lines),
      suggestions |-> generateSuggestions(content, lines),
      metrics |-> [linesOfCode |-> Len(lines),
                   functionCount |-> countFunctions(content),
                   classCount |-> countClasses(content),
                   complexity |-> calculateComplexity(content)]]

RECURSIVE Bullets(_)
\* items.forEach((item) => { result += `- ${item}\n`; })
Bullets(items) ==
  IF Len(items) = 0 THEN <<>>
  ELSE <<"- ">> \o Head(items) \o <<"\n">> \o Bullets(Tail(items))

\* TypeScriptStaticAnalysisStrategy.formatStaticAnalysis
formatStaticAnalysis(analysis) ==
  <<"**Context**: ">> \o analysis.context \o <<"\n\n">>
    \o (IF Len(analysis.issues) > 0
        THEN <<"**Issues Found**:\n">> \o Bullets(analysis.issues) \o <<"\n">>
        ELSE <<>>)
    \o (IF Len(analysis.suggestions) > 0
        THEN <<"**Suggestions**:\n">> \o Bullets(analysis.suggestions)
               \o <<"\n">>
        ELSE <<>>)
    \o <<"**Metrics**:\n">>
    \o <<"- Lines of Code: ">> \o NumberChars(analysis.metrics.linesOfCode)
    \o <<"\n">>
    \o <<"- Functions: ">> \o NumberChars(analysis.metrics.functionCount)
    \o <<"\n">>
    \o <<"- Classes: ">> \o NumberChars(analysis.metrics.classCount)
    \o <<"\n">>
    \o <<"- Complexity: ">> \o NumberChars(analysis.metrics.complexity)
    \o <<"\n">>

\* TypeScriptStaticAnalysisStrategy.performStaticAnalysis
StaticReport(content, filePath) ==
  Once(formatStaticAnalysis, analyzeTypeScriptCode(content, filePath))

\* what one performAnalysis call meets: which of buildPrompt, the backend
\* (or the static analysis) and parseResponse throws, and the text the
\* backend answers
Steps(throws, response) == [throws |-> throws, response |-> response]

StepFailures == {"nothing", "buildPrompt", "analyzeCode", "parseResponse"}

\* AIAnalysisStrategy.analyzeCode / StaticAnalysisStrategy.analyzeCode: the
\* response or the error thrown, and the calls made on the client.  The
\* prompt is built again, asking for suggestions whatever the caller asked.
AnalyzeCode(strategy, content, filePath, steps) ==
  IF strategy.class = "TypeScriptStaticAnalysisStrategy"
  THEN IF steps.throws = "analyzeCode"
       THEN [kind |-> "throw", msg |-> <<"static analysis error">>,
             calls |-> <<>>]
       ELSE [kind |-> "ok", response |-> StaticReport(content, filePath),
             calls |-> <<>>]
  ELSE IF steps.throws = "buildPrompt"
  THEN [kind |-> "throw", msg |-> <<"prompt error">>, calls |-> <<>>]
  ELSE LET prompt == BuildPrompt(strategy, content, filePath, TRUE)
           calls == << [method |-> "startThread"],
                       [method |-> "run", prompt |-> prompt] >>
       IN IF strategy.aiClient # "thread"
          THEN [kind |-> "throw",
                msg |-> <<"aiProvider.startThread is not a function">>,
                calls |-> <<>>]
          ELSE IF steps.throws = "analyzeCode"
          THEN [kind |-> "throw", msg |-> <<"backend error">>,
                calls |-> calls]
          ELSE [kind |-> "ok", response |-> steps.response, calls |-> calls]

\* a template method without the try block: failures propagate
PerformAnalysisUncaught(strategy, content, filePath, includeSuggestions, steps) ==
  LET Settle(response) ==
        IF steps.throws = "nothing" /\ response.kind = "ok"
        THEN [kind |-> "ok", strategy |-> strategy.class, prompt |-> "none",
              calls |-> response.calls,
              result |-> ParseResponse(strategy, response.response)]
        ELSE [kind |-> "throw", strategy |-> strategy.class,
              prompt |-> "none", calls |-> <<>>, msg |-> <<"uncaught">>]
  IN Once(Settle, AnalyzeCode(strategy, content, filePath, steps))

\* CodeAnalysisStrategy.performAnalysis: buildPrompt, analyzeCode and
\* parseResponse inside one try block; the strategy that ran and the calls
\* it made on its client are kept beside the result
PerformAnalysis(strategy, content, filePath, includeSuggestions, steps) ==
  IF steps.throws = "buildPrompt"
  THEN [kind |-> "ok", strategy |-> strategy.class, prompt |-> "none",
        calls |-> <<>>, result |-> HandleError(<<"prompt error">>)]
  ELSE LET prompt == BuildPrompt(strategy, content, filePath,
                                 includeSuggestions)
           Settle(response) ==
             [kind |-> "ok", strategy |-> strategy.class, prompt |-> prompt,
              calls |-> response.calls,
              result |->
                IF response.kind = "throw" THEN HandleError(response.msg)
                ELSE IF steps.throws = "parseResponse"
                THEN HandleError(<<"parse error">>)
                ELSE ParseResponse(strategy, response.response)]
       IN Once(Settle, AnalyzeCode(strategy, content, filePath, steps))

\* AnalysisOrchestrator.analyze up to the settling of performAnalysis, for
\* an orchestrator constructed with analyzer.analysisType and
\* analyzer.aiClient (options.analysisType is not read): the strategy is
\* created, and performAnalysis is awaited unless createStrategy threw
AnalyzePerform(analyzer, file, options, steps) ==
  LET created == CreateStrategy(analyzer.analysisType, analyzer.aiClient)
  IN IF created.kind = "throw"
     THEN [kind |-> "notCreated", strategy |-> "none", prompt |-> "none",
           calls |-> <<>>, msg |-> created.msg]
     ELSE PerformAnalysis(created, file.content, file.path,
                          options.includeSuggestions, steps)

\* the rest of AnalysisOrchestrator.analyze: the fields of the result are
\* copied, and whatever was thrown is turned into a degraded result
Analyze(performed) ==
  IF performed.kind = "ok"
  THEN [context |-> performed.result.context,
        securityIssues |-> performed.result.securityIssues,
        performanceIssues |-> performed.result.performanceIssues,
        architectureIssues |-> performed.result.architectureIssues,
        logicIssues |-> performed.result.logicIssues,
        suggestions |-> performed.result.suggestions]
  ELSE HandleError(performed.msg)

\* the answer of the backend in the pipeline specification
PipeResponse == <<"*","*","L","o","g","i","c","*","*",":"," ","x">>

\* what the performAnalysis calls of the pipeline specification meet
StepPool == { Steps(throws, PipeResponse) : throws \in StepFailures }

\* how a use case is wired: the arguments its AnalysisOrchestrator was
\* constructed with, and the analysisType given to execute
\*   the container's default; an orchestrator without a client; the static
\*   strategy; an analysis type no strategy exists for; a client that has
\*   startThread; a use case that was obtained for the static analysis and
\*   is run with another analysis type
WiringPool ==
  { [analyzer |-> [analysisType |-> "codex", aiClient |-> "analyze"],
     analysisType |-> "codex"],
    [analyzer |-> [analysisType |-> "codex", aiClient |-> "none"],
     analysisType |-> "codex"],
    [analyzer |-> [analysisType |-> "static", aiClient |-> "none"],
     analysisType |-> "static"],
    [analyzer |-> [analysisType |-> "bogus", aiClient |-> "analyze"],
     analysisType |-> "bogus"],
    [analyzer |-> [analysisType |-> "accessibility", aiClient |-> "thread"],
     analysisType |-> "accessibility"],
    [analyzer |-> [analysisType |-> "static", aiClient |-> "analyze"],
     analysisType |-> "toxic-architect"] }

----------------------------------------------------------------------------
(* CodeReviewUseCase *)

\* the pre-read size limit of reviewFile
MaxReadSize == 1024 * 1024

NoResult == [path |-> <<>>, status |-> "none"]

NewReview ==
  [pc |-> "new", fullPath |-> <<>>, size |-> 0, content |-> NoContent,
   analyzer |-> [analysisType |-> "none", aiClient |-> "none"],
   performed |-> [kind |-> "none"], result |-> NoResult]

\* a catch block whose result carries no ReviewStatus
CaughtErrorUntagged(filePath, message) ==
  [path |-> filePath, status |-> "failed", reason |-> message]

\* the ReviewedFile of reviewFile's catch block
CaughtError(filePath, message) ==
  [path |-> filePath, status |-> "error", reason |-> message]

\* the operation, and where the path leads and what size it has as the
\* operation is performed
LogIo(i, op, path) ==
  ioLog \cup {[task |-> i, op |-> op, path |-> path,
               real |-> DiskNow(path).real, size |-> DiskNow(path).size]}

\* execute starts: await gitClient.status(repositoryPath); a failure is
\* rethrown by execute's catch block
ExecStatus ==
  /\ xPc = "start"
  /\ \E br \in BranchResults, ab \in AheadBehindResults,
        pr \in {PorcelainOk(wTree), PorcelainFail} :
       LET st == GitStatus(br, ab, pr)
       IN IF st.kind = "throw"
          THEN /\ xPc' = "rejected"
               /\ xOut' = [kind |-> "rejected",
                           msg |-> <<"Code review failed: ">> \o st.msg]
               /\ UNCHANGED xStatus
          ELSE /\ xPc' = "status"
               /\ xStatus' = st
               /\ UNCHANGED xOut
  /\ UNCHANGED <<xIn, wTree, wGrown, xSel, rTask, ioLog>>
  /\ UNCHANGED <<pathVars, gitVars, dispVars, selVars, suitVars,
               anaVars, conVars>>

\* await gitClient.filesForReview(repositoryPath, reviewType), which reads
\* the status again
ExecFiles ==
  /\ xPc = "status"
  /\ \E br \in BranchResults, ab \in AheadBehindResults,
        pr \in {PorcelainOk(wTree), PorcelainFail} :
       LET sel == FilesForReview(GitStatus(br, ab, pr), xIn.reviewType)
       IN IF sel.kind = "throw"
          THEN /\ xPc' = "rejected"
               /\ xOut' = [kind |-> "rejected",
                           msg |-> <<"Code review failed: ">> \o sel.msg]
               /\ UNCHANGED xSel
          ELSE /\ xPc' = "files"
               /\ xSel' = sel.files
               /\ UNCHANGED xOut
  /\ UNCHANGED <<xIn, wTree, wGrown, xStatus, rTask, ioLog>>
  /\ UNCHANGED <<pathVars, gitVars, dispVars, selVars, suitVars,
               anaVars, conVars>>

\* fileProcessor.processFiles(filesToReview, reviewFile, concurrencyLimit)
ExecProcess ==
  /\ xPc = "files"
  /\ ProcessFilesBegin(xSel, xIn.concurrencyLimit)
  /\ rTask' = [i \in Indices(xSel) |-> NewReview]
  /\ xPc' = "processing"
  /\ UNCHANGED <<xIn, wTree, wGrown, xStatus, xSel, xOut, ioLog>>
  /\ UNCHANGED <<pathVars, gitVars, selVars, suitVars, anaVars, conVars>>

\* p-limit starts reviewFile for the next queued file: pathPolicy.resolve,
\* then the call of fileSystem.exists
StartReview ==
  /\ xPc = "processing"
  /\ \E i \in DOMAIN dTask :
       /\ LimitRun(i)
       /\ LET filePath == dFiles[i]
              res == SafeResolve(xIn.repositoryPath, filePath)
          IN IF res.kind = "throw"
             THEN /\ rTask' = [rTask EXCEPT
                       ![i].pc = "return",
                       ![i].result =
                         CaughtError(filePath,
                                     Msg("Path traversal detected: ",
                                         <<res.path>>))]
                  /\ UNCHANGED ioLog
             ELSE /\ rTask' = [rTask EXCEPT ![i].pc = "exists",
                                            ![i].fullPath = res.path]
                  /\ ioLog' = LogIo(i, "exists", res.path)
  /\ UNCHANGED <<dFiles, dLimit, dMax, dValues, dAll, dErr>>
  /\ UNCHANGED <<xIn, wTree, wGrown, xPc, xStatus, xSel, xOut>>
  /\ UNCHANGED <<pathVars, gitVars, selVars, suitVars, anaVars, conVars>>

\* exists has answered: return inaccessible, or call fileSystem.stat
AfterExists ==
  /\ \E i \in DOMAIN rTask :
       /\ rTask[i].pc = "exists"
       /\ LET filePath == dFiles[i]
              fullPath == rTask[i].fullPath
              file == DiskNow(fullPath)
          IN IF ~file.exists
             THEN /\ rTask' = [rTask EXCEPT
                       ![i].pc = "return",
                       ![i].result =
                         [path |-> filePath, status |-> "inaccessible",
                          reason |-> Msg("File does not exist", <<>>)]]
                  /\ UNCHANGED ioLog
             ELSE /\ ioLog' = LogIo(i, "stat", fullPath)
                  /\ rTask' =
                       IF ~file.statOk
                       THEN [rTask EXCEPT
                               ![i].pc = "return",
                               ![i].result =
                                 CaughtError(filePath,
                                             Msg("Failed to stat file ",
                                                 <<fullPath, "EACCES">>))]
                       ELSE [rTask EXCEPT ![i].pc = "stat",
                                          ![i].size = file.size]
  /\ UNCHANGED <<xIn, wTree, wGrown, xPc, xStatus, xSel, xOut>>
  /\ UNCHANGED <<pathVars, gitVars, dispVars, selVars, suitVars,
               anaVars, conVars>>

\* stat has answered: return skipped for a large file, or call
\* fileSystem.read
AfterStat ==
  /\ \E i \in DOMAIN rTask :
       /\ rTask[i].pc = "stat"
       /\ LET filePath == dFiles[i]
              fullPath == rTask[i].fullPath
              file == DiskNow(fullPath)
          IN IF rTask[i].size > MaxReadSize
             THEN /\ rTask' = [rTask EXCEPT
                       ![i].pc = "return",
                       ![i].result =
                         [path |-> filePath, status |-> "skipped",
                          reason |-> Msg("File too large",
                                         <<rTask[i].size, MaxReadSize>>)]]
                  /\ UNCHANGED ioLog
             ELSE /\ ioLog' = LogIo(i, "read", fullPath)
                  /\ rTask' =
                       IF ~file.readOk
                       THEN [rTask EXCEPT
                               ![i].pc = "return",
                               ![i].result =
                                 CaughtError(filePath,
                                             Msg("Failed to read file ",
                                                 <<fullPath, "EACCES">>))]
                       ELSE [rTask EXCEPT ![i].pc = "read",
                                          ![i].content = file.content]
  /\ UNCHANGED <<xIn, wTree, wGrown, xPc, xStatus, xSel, xOut>>
  /\ UNCHANGED <<pathVars, gitVars, dispVars, selVars, suitVars,
               anaVars, conVars>>

\* read has answered: suitabilityPolicy.check, then return skipped or call
\* analyzer.analyze
AfterRead ==
  /\ \E i \in DOMAIN rTask :
       /\ rTask[i].pc = "read"
       /\ LET filePath == dFiles[i]
              suitability ==
                SuitabilityCheck(DefaultConfig, filePath, rTask[i].content)
          IN rTask' =
               IF ~suitability.suitable
               THEN [rTask EXCEPT
                       ![i].pc = "return",
                       ![i].result =
                         [path |-> filePath, status |-> "skipped",
                          reason |-> suitability.reason]]
               ELSE [rTask EXCEPT ![i].pc = "analyze",
                                  ![i].analyzer = xIn.analyzer]
  /\ UNCHANGED <<xIn, wTree, wGrown, xPc, xStatus, xSel, xOut, ioLog>>
  /\ UNCHANGED <<pathVars, gitVars, dispVars, selVars, suitVars,
               anaVars, conVars>>

\* inside analyzer.analyze: the strategy was created for the analysisType
\* the orchestrator had when analyze was called, and performAnalysis settles
PerformSettles ==
  /\ \E i \in DOMAIN rTask, steps \in StepPool :
       /\ rTask[i].pc = "analyze"
       /\ LET file == [path |-> dFiles[i], content |-> rTask[i].content.text]
              options == [includeSuggestions |-> xIn.includeSuggestions,
                          analysisType |-> xIn.analysisType]
          IN rTask' = [rTask EXCEPT
               ![i].pc = "analyzed",
               ![i].performed =
                 AnalyzePerform(rTask[i].analyzer, file, options, steps)]
  /\ UNCHANGED <<xIn, wTree, wGrown, xPc, xStatus, xSel, xOut, ioLog>>
  /\ UNCHANGED <<pathVars, gitVars, dispVars, selVars, suitVars,
               anaVars, conVars>>

\* analyzer.analyze has settled: return reviewed with the analysis
AfterAnalyze ==
  /\ \E i \in DOMAIN rTask :
       /\ rTask[i].pc = "analyzed"
       /\ rTask' = [rTask EXCEPT
            ![i].pc = "return",
            ![i].result =
              [path |-> dFiles[i], status |-> "reviewed",
               analysis |-> Analyze(rTask[i].performed)]]
  /\ UNCHANGED <<xIn, wTree, wGrown, xPc, xStatus, xSel, xOut, ioLog>>
  /\ UNCHANGED <<pathVars, gitVars, dispVars, selVars, suitVars,
               anaVars, conVars>>

\* reviewFile's promise is fulfilled with its ReviewedFile
ReviewReturn ==
  /\ \E i \in DOMAIN rTask :
       /\ rTask[i].pc = "return"
       /\ LimitFulfil(i, rTask[i].result)
       /\ rTask' = [rTask EXCEPT ![i].pc = "done"]
  /\ UNCHANGED <<xIn, wTree, wGrown, xPc, xStatus, xSel, xOut, ioLog>>
  /\ UNCHANGED <<pathVars, gitVars, selVars, suitVars, anaVars, conVars>>

CountStatus(files, statuses) ==
  Cardinality({i \in DOMAIN files : files[i].status \in statuses})

\* CodeReviewUseCase.buildSummary: the counts and the branch it prints
BuildSummary(gitStatus, files) ==
  [total |-> Len(files),
   branch |-> gitStatus.branch,
   reviewed |-> CountStatus(files, {"reviewed"}),
   skipped |-> CountStatus(files, {"skipped"}),
   errors |-> CountStatus(files, {"error", "inaccessible"})]

\* processFiles has resolved: build the summary and return the result
ExecFinish ==
  /\ xPc = "processing"
  /\ dAll = "fulfilled"
  /\ xPc' = "done"
  /\ xOut' = [kind |-> "ok",
              summary |-> BuildSummary(xStatus, dValues),
              files |-> dValues,
              gitStatus |-> xStatus]
  /\ UNCHANGED <<xIn, wTree, wGrown, xStatus, xSel, rTask, ioLog>>
  /\ UNCHANGED <<pathVars, gitVars, dispVars, selVars, suitVars,
               anaVars, conVars>>

\* the concurrencyLimit the use case was constructed with
ConcurrencyPool == { Num(1), Num(DefaultConfig.concurrency) }

\* the wiring the container builds when no client is injected
DefaultWiring ==
  [analyzer |-> [analysisType |-> "codex", aiClient |-> "analyze"],
   analysisType |-> "codex"]

\* the runs of the pipeline specification: the default wiring with every
\* review type and concurrency, every other wiring with a full review;
\* suggestions are asked for, and also declined where a prompt is sent
PipeInputs ==
  { [repositoryPath |-> RepoPath, reviewType |-> type,
     includeSuggestions |-> suggest,
     analysisType |-> wiring.analysisType, analyzer |-> wiring.analyzer,
     concurrencyLimit |-> limit] :
      <<wiring, type, limit, suggest>> \in
        { c \in WiringPool \X TypePool \X ConcurrencyPool \X BOOLEAN :
            /\ \/ c[1] = DefaultWiring
               \/ c[2] = "full" /\ c[3] = Num(DefaultConfig.concurrency)
            /\ c[4] \/ c[1].analyzer.aiClient = "thread" } }

PipeIdle ==
  /\ xIn = [repositoryPath |-> <<>>, reviewType |-> "none",
            includeSuggestions |-> TRUE, analysisType |-> "none",
            analyzer |-> [analysisType |-> "none", aiClient |-> "none"],
            concurrencyLimit |-> Num(1)]
  /\ wTree = <<>>
  /\ wGrown = {}
  /\ xPc = "off"
  /\ xStatus = [kind |-> "none"]
  /\ xSel = <<>>
  /\ xOut = [kind |-> "none"]
  /\ rTask = <<>>
  /\ ioLog = {}

PipeInit ==
  /\ xIn \in PipeInputs
  /\ wTree \in PipeTrees
  /\ wGrown = {}
  /\ xPc = "start"
  /\ xStatus = [kind |-> "none"]
  /\ xSel = <<>>
  /\ xOut = [kind |-> "none"]
  /\ rTask = <<>>
  /\ ioLog = {}

PipeNext ==
  \/ ExecStatus \/ ExecFiles \/ ExecProcess
  \/ StartReview \/ AfterExists \/ AfterStat \/ AfterRead
  \/ PerformSettles \/ AfterAnalyze
  \/ ReviewReturn
  \/ ExecFinish

----------------------------------------------------------------------------
(* The pipeline in a working tree that changes while execute runs *)

\* the working trees of this specification: a.ts (small), b.ts (3000
\* lines) and d.ts (2 MiB), each modified or not
LiveTrees ==
  { PickEntries(chosen) :
      chosen \in { c \in SUBSET {1, 2, 4} : Cardinality(c) <= MaxTreeEntries } }

\* the files another process appends to during the run
GrowingFiles == { <<"/", "r", "/", "a", ".", "t", "s">> }

LiveInit ==
  /\ xIn = [repositoryPath |-> RepoPath, reviewType |-> "full",
            includeSuggestions |-> TRUE,
            analysisType |-> DefaultWiring.analysisType,
            analyzer |-> DefaultWiring.analyzer,
            concurrencyLimit |-> Num(DefaultConfig.concurrency)]
  /\ wTree \in LiveTrees
  /\ wGrown = {}
  /\ xPc = "start"
  /\ xStatus = [kind |-> "none"]
  /\ xSel = <<>>
  /\ xOut = [kind |-> "none"]
  /\ rTask = <<>>
  /\ ioLog = {}

\* another process changes which files git reports, before the run has
\* read the status for the last time
TreeChanges ==
  /\ xPc \in {"start", "status"}
  /\ wTree' \in LiveTrees \ {wTree}
  /\ UNCHANGED <<xIn, wGrown, xPc, xStatus, xSel, xOut, rTask, ioLog>>
  /\ UNCHANGED <<pathVars, gitVars, dispVars, selVars, suitVars,
                 anaVars, conVars>>

\* another process appends to a file while the run is under way
FileGrows ==
  /\ xPc \in {"start", "status", "files", "processing"}
  /\ \E path \in GrowingFiles \ wGrown : wGrown' = wGrown \cup {path}
  /\ UNCHANGED <<xIn, wTree, xPc, xStatus, xSel, xOut, rTask, ioLog>>
  /\ UNCHANGED <<pathVars, gitVars, dispVars, selVars, suitVars,
                 anaVars, conVars>>

\* the holder of the orchestrator calls setAnalysisType on it while the run
\* is under way
AnalyzerRetyped ==
  /\ xPc \in {"start", "status", "files", "processing"}
  /\ \E type \in {"codex", "static", "bogus"} \ {xIn.analyzer.analysisType} :
       xIn' = [xIn EXCEPT !.analyzer.analysisType = type]
  /\ UNCHANGED <<wTree, wGrown, xPc, xStatus, xSel, xOut, rTask, ioLog>>
  /\ UNCHANGED <<pathVars, gitVars, dispVars, selVars, suitVars,
                 anaVars, conVars>>

LiveNext == PipeNext \/ TreeChanges \/ FileGrows \/ AnalyzerRetyped

----------------------------------------------------------------------------
(* One call of AnalysisOrchestrator.analyze *)

\* the answers of the backend: nothing; headings a strategy knows and
\* headings none or only some know, in bold and as `##` lines; a text
\* without headings; an answer under the header the Codex CLI prints
ResponsePool ==
  { <<>>,
    <<"*","*","S","e","c","u","r","i","t","y"," ","I","s","s","u","e","s","*","*",":"," ","e","v","a","l","\n","*","*","N","o","t","e","s","*","*",":"," ","k","e","e","p">>,
    <<"*","*","S","u","g","g","e","s","t","i","o","n","s","*","*",":"," ","u","s","e"," ","c","o","n","s","t">>,
    <<"*","*","A","c","c","e","s","s","i","b","i","l","i","t","y","*","*",":"," ","a","l","t","\n","*","*","S","u","m","m","a","r","y","*","*",":"," ","f","i","n","e">>,
    <<"*","*","S","O","L","I","D","*","*",":"," ","s","r","p","\n","*","*","V","e","r","d","i","c","t","*","*",":"," ","p","o","o","r">>,
    <<"#","#"," ","L","o","g","i","c","\n","l","o","o","p","\n","#","#"," ","M","i","s","c","\n","r","e","s","t">>,
    <<"n","o"," ","h","e","a","d","i","n","g","s">>,
    <<"O","p","e","n","A","I"," ","C","o","d","e","x"," ","v","1","\n","c","o","d","e","x","\n","*","*","L","o","g","i","c"," ","I","s","s","u","e","s","*","*",":"," ","o","f","f"," ","b","y"," ","o","n","e">> }

AnalyzerPool ==
  { [analysisType |-> type, aiClient |-> client] :
      type \in AnalysisTypes, client \in AIClients \ {"none"} }

\* the contents analysed: the small files' contents, a fenced block, a
\* TODO comment before a class, and an empty file
SourcePool ==
  { FunctionSource.text, TemplateSource.text, LoggingSource.text,
    <<Backtick,Backtick,Backtick,"t","s","\n","c","o","d","e","\n",Backtick,Backtick,Backtick>>,
    <<"/","/"," ","T","O","D","O"," ","x","\n","c","l","a","s","s"," ","A"," ","{","}">>,
    <<>> }

AnalyzedFiles ==
  { [path |-> <<"a", ".", "t", "s">>, content |-> text] : text \in SourcePool }

\* the arguments of setAnalysisType
SetTypes == { "codex", "static", "bogus" }

AnaIdle ==
  /\ aIn = [analyzer |-> [analysisType |-> "none", aiClient |-> "none"],
            file |-> [path |-> <<>>, content |-> <<>>],
            options |-> [includeSuggestions |-> TRUE,
                         analysisType |-> "none"],
            steps |-> Steps("nothing", <<>>)]
  /\ aOut = [kind |-> "none"]

AnaInit ==
  /\ aIn \in { [analyzer |-> analyzer, file |-> file,
                options |-> [includeSuggestions |-> suggest,
                             analysisType |-> analyzer.analysisType],
                steps |-> steps] :
               analyzer \in AnalyzerPool, file \in AnalyzedFiles,
               suggest \in BOOLEAN,
               steps \in { Steps("nothing", response) :
                             response \in ResponsePool }
                         \cup { Steps(throws, <<>>) :
                                  throws \in StepFailures } }
  /\ aOut = [kind |-> "none"]

\* analyzer.analyze(file, options) is called: the strategy is created for
\* the analysisType of this moment and performAnalysis is awaited
AnalyzeCall ==
  /\ aOut.kind = "none"
  /\ \E performed \in { AnalyzePerform(aIn.analyzer, aIn.file, aIn.options,
                                       aIn.steps) } :
       aOut' = [kind |-> "pending", performed |-> performed,
                analysis |-> Analyze(performed)]
  /\ UNCHANGED aIn
  /\ UNCHANGED <<pathVars, gitVars, dispVars, pipeVars, selVars, suitVars,
                 conVars>>

\* the promise of analyze is fulfilled with the analysis
AnalyzeSettles ==
  /\ aOut.kind = "pending"
  /\ aOut' = [aOut EXCEPT !.kind = "returned"]
  /\ UNCHANGED aIn
  /\ UNCHANGED <<pathVars, gitVars, dispVars, pipeVars, selVars, suitVars,
                 conVars>>

\* analyzer.setAnalysisType(type), before, during or after the call
SetAnalysisType ==
  /\ \E type \in SetTypes \ {aIn.analyzer.analysisType} :
       aIn' = [aIn EXCEPT !.analyzer.analysisType = type]
  /\ UNCHANGED aOut
  /\ UNCHANGED <<pathVars, gitVars, dispVars, pipeVars, selVars, suitVars,
                 conVars>>

AnaNext == AnalyzeCall \/ AnalyzeSettles \/ SetAnalysisType

----------------------------------------------------------------------------
(* DependencyContainer *)

\* the `if (!this.instances.has(key)) this.instances.set(key, ...)` of
\* each getter
Cache(instances, key, instance) ==
  IF key \in DOMAIN instances THEN instances
  ELSE instances @@ (key :> instance)

\* getSuitabilityPolicy: a FileSuitabilityChecker over the configuration of
\* the moment it is created
WithSuitabilityPolicy(instances, config) ==
  Cache(instances, <<"suitabilityPolicy">>,
        [class |-> "FileSuitabilityChecker", config |-> config])

\* getAIClient: no client was injected, a CodexClient is created
WithAIClient(instances) ==
  Cache(instances, <<"aiClient">>, [class |-> "CodexClient"])

\* getAnalyzer
WithAnalyzer(instances, analysisType) ==
  Cache(WithAIClient(instances), <<"analyzer", analysisType>>,
        [class |-> "AnalysisOrchestrator", analysisType |-> analysisType,
         aiClient |-> "analyze"])

\* getGitClient
WithGitClient(instances, repoPath) ==
  Cache(instances, <<"gitClient", repoPath>>,
        [class |-> "NodeGitClient", repoPath |-> repoPath])

\* getFileSystem
WithFileSystem(instances) ==
  Cache(instances, <<"fileSystem">>, [class |-> "NodeFileSystem"])

\* getPathPolicy
WithPathPolicy(instances) ==
  Cache(instances, <<"pathPolicy">>, [class |-> "SafePathPolicy"])

\* getFileProcessor
WithFileProcessor(instances) ==
  Cache(instances, <<"fileProcessor">>, [class |-> "ConcurrentFileProcessor"])

\* getCliReporter
WithCliReporter(instances, useEmoji) ==
  Cache(instances, <<"cliReporter", useEmoji>>,
        [class |-> "CliReporter", useEmoji |-> useEmoji])

\* getJsonReporter
WithJsonReporter(instances) ==
  Cache(instances, <<"jsonReporter">>, [class |-> "JsonReporter"])

\* getGitClient, getFileSystem, getPathPolicy and getFileProcessor, in the
\* order in which the arguments of the use case's constructor call them
WithInfrastructure(instances, repoPath) ==
  WithFileProcessor(WithPathPolicy(WithFileSystem(
    WithGitClient(instances, repoPath))))

\* getCodeReviewUseCase: the instances after the call, the use case being
\* built from the other getters' instances and config.concurrency when no
\* use case is cached under the key
WithCodeReviewUseCase(instances, config, repoPath, analysisType) ==
  LET key == <<"useCase", repoPath, analysisType>>
      parts == WithSuitabilityPolicy(
                 WithAnalyzer(WithInfrastructure(instances, repoPath),
                              analysisType),
                 config)
  IN IF key \in DOMAIN instances THEN instances
     ELSE parts @@
          (key :> [class |-> "CodeReviewUseCase",
                   repoPath |-> repoPath,
                   analyzer |-> parts[<<"analyzer", analysisType>>],
                   suitabilityPolicy |-> parts[<<"suitabilityPolicy">>],
                   concurrencyLimit |-> config.concurrency])

\* the arguments of updateConfig: a Partial<AnalysisConfig>
ConfigUpdates ==
  { [maxLines |-> SmallConfig.maxLines],
    [concurrency |-> SmallConfig.concurrency],
    [maxFileSize |-> SmallConfig.maxFileSize,
     concurrency |-> DefaultConfig.concurrency] }

ContainerRepos == { "/r" }
\* the useEmoji argument of getCliReporter
ReporterEmoji == BOOLEAN
ContainerTypes == { "codex", "static" }

ConIdle ==
  /\ kConfig = DefaultConfig
  /\ kInstances = <<>>
  /\ kUseCase = [kind |-> "none"]

\* createContainer(): the default configuration and nothing cached
ConInit ==
  /\ kConfig = DefaultConfig
  /\ kInstances = <<>>
  /\ kUseCase = [kind |-> "none"]

\* container.getCodeReviewUseCase(repoPath, analysisType)
GetCodeReviewUseCase ==
  /\ \E repoPath \in ContainerRepos, analysisType \in ContainerTypes :
       LET instances == WithCodeReviewUseCase(kInstances, kConfig, repoPath,
                                              analysisType)
       IN /\ kInstances' = instances
          /\ kUseCase' =
               [kind |-> "returned",
                useCase |-> instances[<<"useCase", repoPath, analysisType>>]]
  /\ UNCHANGED kConfig
  /\ UNCHANGED <<pathVars, gitVars, dispVars, pipeVars, selVars, suitVars,
                 anaVars>>

\* container.getSuitabilityPolicy()
GetSuitabilityPolicy ==
  /\ kInstances' = WithSuitabilityPolicy(kInstances, kConfig)
  /\ UNCHANGED <<kConfig, kUseCase>>
  /\ UNCHANGED <<pathVars, gitVars, dispVars, pipeVars, selVars, suitVars,
                 anaVars>>

\* container.updateConfig(newConfig): the configuration is merged and the
\* cached suitability policy deleted; the use case returned before the
\* update is no longer the last one returned
UpdateConfig ==
  /\ \E newConfig \in ConfigUpdates :
       kConfig' = newConfig @@ kConfig
  /\ kInstances' = [key \in DOMAIN kInstances \ {<<"suitabilityPolicy">>}
                      |-> kInstances[key]]
  /\ kUseCase' = [kind |-> "none"]
  /\ UNCHANGED <<pathVars, gitVars, dispVars, pipeVars, selVars, suitVars,
                 anaVars>>

\* container.getGitClient(repoPath)
GetGitClient ==
  /\ \E repoPath \in ContainerRepos :
       kInstances' = WithGitClient(kInstances, repoPath)
  /\ UNCHANGED <<kConfig, kUseCase>>
  /\ UNCHANGED <<pathVars, gitVars, dispVars, pipeVars, selVars, suitVars,
                 anaVars>>

\* container.getFileSystem()
GetFileSystem ==
  /\ kInstances' = WithFileSystem(kInstances)
  /\ UNCHANGED <<kConfig, kUseCase>>
  /\ UNCHANGED <<pathVars, gitVars, dispVars, pipeVars, selVars, suitVars,
                 anaVars>>

\* container.getAIClient()
GetAIClient ==
  /\ kInstances' = WithAIClient(kInstances)
  /\ UNCHANGED <<kConfig, kUseCase>>
  /\ UNCHANGED <<pathVars, gitVars, dispVars, pipeVars, selVars, suitVars,
                 anaVars>>

\* container.getPathPolicy()
GetPathPolicy ==
  /\ kInstances' = WithPathPolicy(kInstances)
  /\ UNCHANGED <<kConfig, kUseCase>>
  /\ UNCHANGED <<pathVars, gitVars, dispVars, pipeVars, selVars, suitVars,
                 anaVars>>

\* container.getFileProcessor()
GetFileProcessor ==
  /\ kInstances' = WithFileProcessor(kInstances)
  /\ UNCHANGED <<kConfig, kUseCase>>
  /\ UNCHANGED <<pathVars, gitVars, dispVars, pipeVars, selVars, suitVars,
                 anaVars>>

\* container.getAnalyzer(analysisType)
GetAnalyzer ==
  /\ \E analysisType \in ContainerTypes :
       kInstances' = WithAnalyzer(kInstances, analysisType)
  /\ UNCHANGED <<kConfig, kUseCase>>
  /\ UNCHANGED <<pathVars, gitVars, dispVars, pipeVars, selVars, suitVars,
                 anaVars>>

\* container.getCliReporter(useEmoji)
GetCliReporter ==
  /\ \E useEmoji \in ReporterEmoji :
       kInstances' = WithCliReporter(kInstances, useEmoji)
  /\ UNCHANGED <<kConfig, kUseCase>>
  /\ UNCHANGED <<pathVars, gitVars, dispVars, pipeVars, selVars, suitVars,
                 anaVars>>

\* container.getJsonReporter()
GetJsonReporter ==
  /\ kInstances' = WithJsonReporter(kInstances)
  /\ UNCHANGED <<kConfig, kUseCase>>
  /\ UNCHANGED <<pathVars, gitVars, dispVars, pipeVars, selVars, suitVars,
                 anaVars>>

ConNext ==
  \/ GetCodeReviewUseCase \/ GetSuitabilityPolicy \/ UpdateConfig
  \/ GetGitClient \/ GetFileSystem \/ GetAIClient \/ GetPathPolicy
  \/ GetFileProcessor \/ GetAnalyzer \/ GetCliReporter \/ GetJsonReporter

----------------------------------------------------------------------------
(* Specifications: each exercises one component and leaves the others idle *)

PathIdle == pBase = <<>> /\ pCand = <<>> /\ pOut = NoOut

GitIdle ==
  /\ gIn = <<>>
  /\ gPc = "off"
  /\ gOut = [kind |-> "none"]
  /\ gFiles = [type |-> "none", res |-> [kind |-> "none"]]
  /\ gAb = "none"

InitPath ==
  PathInit /\ GitIdle /\ DispIdle /\ PipeIdle /\ SelIdle /\ SuitIdle
    /\ AnaIdle /\ ConIdle
SpecPath == InitPath /\ [][PathNext]_vars

InitGit ==
  GitInit /\ PathIdle /\ DispIdle /\ PipeIdle /\ SelIdle /\ SuitIdle
    /\ AnaIdle /\ ConIdle
SpecGit == InitGit /\ [][GitNext]_vars

InitDispatch ==
  DispInit /\ PathIdle /\ GitIdle /\ PipeIdle /\ SelIdle /\ SuitIdle
    /\ AnaIdle /\ ConIdle
SpecDispatch == InitDispatch /\ [][DispNext]_vars

InitPipeline ==
  PipeInit /\ PathIdle /\ GitIdle /\ DispIdle /\ SelIdle /\ SuitIdle
    /\ AnaIdle /\ ConIdle
SpecPipeline == InitPipeline /\ [][PipeNext]_vars

InitSelect ==
  SelInit /\ PathIdle /\ GitIdle /\ DispIdle /\ PipeIdle /\ SuitIdle
    /\ AnaIdle /\ ConIdle
SpecSelect == InitSelect /\ [][SelNext]_vars

InitSuit ==
  SuitInit /\ PathIdle /\ GitIdle /\ DispIdle /\ PipeIdle /\ SelIdle
    /\ AnaIdle /\ ConIdle
SpecSuit == InitSuit /\ [][SuitNext]_vars

InitLive ==
  LiveInit /\ PathIdle /\ GitIdle /\ DispIdle /\ SelIdle /\ SuitIdle
    /\ AnaIdle /\ ConIdle
SpecLive == InitLive /\ [][LiveNext]_vars

InitContainer ==
  ConInit /\ PathIdle /\ GitIdle /\ DispIdle /\ PipeIdle /\ SelIdle
    /\ SuitIdle /\ AnaIdle
SpecContainer == InitContainer /\ [][ConNext]_vars

InitAnalyze ==
  AnaInit /\ PathIdle /\ GitIdle /\ DispIdle /\ PipeIdle /\ SelIdle
    /\ SuitIdle /\ ConIdle
SpecAnalyze == InitAnalyze /\ [][AnaNext]_vars

----------------------------------------------------------------------------
(* Claims about ConcurrentFileProcessor.processFiles (SpecDispatch) *)

Settled == {i \in DOMAIN dTask : dTask[i].st \in {"fulfilled", "rejected"}}

AllSettled == dAll # "none" /\ Settled = DOMAIN dTask

IsErrorTagged(v) == "status" \in DOMAIN v /\ v.status = "error"

\* C1: processFiles never rejects because a per-file task rejected: once
\* every task has settled the call has resolved with an array that holds an
\* error-tagged result at the index of each rejected task and the result of
\* every other task at its own index.
C1_FailuresAsData ==
  /\ dAll # "rejected"
  /\ AllSettled =>
       /\ dAll = "fulfilled"
       /\ \A i \in DOMAIN dTask :
            IF dTask[i].st = "rejected"
            THEN dValues[i] # EmptySlot /\ IsErrorTagged(dValues[i])
            ELSE dValues[i] = [path |-> dFiles[i], status |-> "reviewed"]

\* twice the limit the claim names: concurrencyLimit clamped to [1, 64]
ClaimedLimitTwice(c) ==
  IF c.nan THEN 2
  ELSE IF c.twice < 2 THEN 2
  ELSE IF c.twice > 2 * 64 THEN 2 * 64
  ELSE c.twice

\* C2: at every moment of a processFiles call the number of tasks started
\* and not yet settled is at most concurrencyLimit clamped to [1, 64], and
\* p-limit's count of active tasks is that number.
C2_InFlightBounded ==
  dAll # "none" =>
    /\ 2 * Cardinality(Running) <= ClaimedLimitTwice(dLimit)
    /\ dActive = Cardinality(Running)
    /\ dMax \in 1..64

\* limit 2 over 5 tasks: two in flight, the rest queued or settled
C2_Witness ==
  /\ dAll # "none"
  /\ dLimit = Num(2)
  /\ Len(dFiles) = 5
  /\ Cardinality(Running) = 2
  /\ Len(dQueue) = 2

\* C4: no task is started twice, a settled task was started exactly once,
\* and a rejection neither stops running siblings nor blocks the queue:
\* while a task waits and nothing runs, p-limit can start the next one.
C4_StartedOnceNeverCancelled ==
  dAll # "none" =>
    /\ \A i \in DOMAIN dTask :
         /\ dTask[i].starts <= 1
         /\ dTask[i].st = "queued" <=> dTask[i].starts = 0
         /\ dTask[i].st = "queued" <=> \E k \in 1..Len(dQueue) : dQueue[k] = i
    /\ (Running = {} /\ \E i \in DOMAIN dTask : dTask[i].st = "queued")
         => dActive < dMax

\* with limit 1 the first task was rejected and the tasks queued behind it
\* were still started and fulfilled
C4_Witness ==
  /\ dAll # "none"
  /\ dMax = 1
  /\ Len(dFiles) = 3
  /\ dTask[1].st = "rejected"
  /\ dTask[2].st = "fulfilled"
  /\ dTask[3].st = "fulfilled"

----------------------------------------------------------------------------
(* Claims about CodeReviewUseCase.execute (SpecPipeline) *)

Filled(values) == {i \in DOMAIN values : values[i] # EmptySlot}

\* C3: whatever the order in which the tasks complete, the i-th element of
\* the result array of processFiles is the result of the task for the i-th
\* input path, and so is the i-th element of the files execute returns.
C3_SubmissionOrder ==
  /\ \A i \in Filled(dValues) : dValues[i].path = dFiles[i]
  /\ xPc = "done" =>
       /\ Len(xOut.files) = Len(xSel)
       /\ \A i \in DOMAIN xSel : xOut.files[i].path = xSel[i]

\* a later task has completed while an earlier one is still running
C3_Witness ==
  /\ xPc = "processing"
  /\ \E i, j \in DOMAIN dTask :
       /\ i < j
       /\ dTask[i].st = "running"
       /\ dTask[j].st = "fulfilled"
       /\ j \in Filled(dValues)

TerminalStatuses == {"inaccessible", "skipped", "reviewed", "error"}

StatusStageFailure(msg) ==
  /\ Len(msg) >= 2
  /\ msg[1] = "Code review failed: "
  /\ msg[2] = "Git command execution failed: "

\* C5: for a review type of the ReviewType union, execute rejects only
\* because reading the status failed, and then before any file was
\* dispatched; once files are dispatched processFiles never rejects, and
\* the result execute returns holds one ReviewedFile per selected file,
\* each with one of the four terminal statuses.
C5_RaisesOnlyForStatus ==
  /\ xPc = "rejected" =>
       /\ rTask = <<>>
       /\ xIn.reviewType \in ReviewTypes => StatusStageFailure(xOut.msg)
  /\ xPc \in {"processing", "done"} =>
       /\ dAll # "rejected"
       /\ \A i \in Filled(dValues) : dValues[i].status \in TerminalStatuses
  /\ xPc = "done" =>
       /\ xOut.kind = "ok"
       /\ DOMAIN xOut.files = DOMAIN xSel
       /\ \A i \in DOMAIN xSel :
            /\ xOut.files[i].path = xSel[i]
            /\ xOut.files[i].status \in TerminalStatuses

\* a run that returned although resolving one file's path failed, next to
\* a file with another status
C5_Witness ==
  /\ xPc = "done"
  /\ \E i, j \in DOMAIN xOut.files :
       /\ xOut.files[i].status = "error"
       /\ xOut.files[i].reason.text = "Path traversal detected: "
       /\ xOut.files[j].status # "error"

\* the location a candidate leads to lies outside the repository
ResolvesOutside(base, cand) == ~ContainedIn(base, cand)

\* C6: for a candidate path that resolves outside the repository base,
\* reviewFile performs no existence check, stat or read; the file's result
\* is an error and the other files are still processed.
C6_NoAccessOutsideBase ==
  /\ \A rec \in ioLog :
       ~ResolvesOutside(xIn.repositoryPath, dFiles[rec.task])
  /\ xPc = "done" =>
       \A i \in DOMAIN xSel :
         ResolvesOutside(xIn.repositoryPath, xSel[i]) =>
           xOut.files[i].status = "error"

\* the path names a symbolic link inside base whose target is outside
SymlinkOut(base, path) ==
  /\ ContainedIn(base, path)
  /\ Disk(path).real # path
  /\ ~ContainedIn(base, Disk(path).real)

\* C8: a candidate that names a symbolic link inside base whose target
\* lies outside base is rejected by resolve and is never read.
C8_SymlinkRejected ==
  /\ \A rec \in ioLog : ~SymlinkOut(xIn.repositoryPath, rec.path)
  /\ \A i \in DOMAIN rTask :
       SymlinkOut(xIn.repositoryPath,
                  PathResolve(<<xIn.repositoryPath, dFiles[i]>>)) =>
         /\ rTask[i].pc \in {"new", "return", "done"}
         /\ rTask[i].result.status \in {"none", "error"}

----------------------------------------------------------------------------
(* Claims about filesForReview over one snapshot (SpecSelect) *)

Elements(seq) == { seq[k] : k \in 1..Len(seq) }

Asked(type) == type \in DOMAIN sOut /\ sOut[type].kind = "ok"

\* C11: over one status snapshot, the set filesForReview returns for
\* `staged` is a subset of the set it returns for `modified`, which is a
\* subset of the set it returns for `full`.
C11_MonotonicInclusion ==
  /\ Asked("staged") /\ Asked("modified") =>
       Elements(sOut["staged"].files) \subseteq Elements(sOut["modified"].files)
  /\ Asked("modified") /\ Asked("full") =>
       Elements(sOut["modified"].files) \subseteq Elements(sOut["full"].files)

\* the three selections of one snapshot, each strictly larger than the one
\* before
C11_Witness ==
  /\ Asked("staged") /\ Asked("modified") /\ Asked("full")
  /\ Elements(sOut["staged"].files) # {}
  /\ Elements(sOut["staged"].files) # Elements(sOut["modified"].files)
  /\ Elements(sOut["modified"].files) # Elements(sOut["full"].files)

RECURSIVE FirstSeenIgnoringCase(_, _)
\* the paths of items in first-seen order, a path being dropped when an
\* earlier one equals it ignoring case
FirstSeenIgnoringCase(items, kept) ==
  IF Len(items) = 0 THEN kept
  ELSE FirstSeenIgnoringCase(
         Tail(items),
         IF \E k \in 1..Len(kept) :
              ToLowerCase(kept[k]) = ToLowerCase(Head(items))
         THEN kept ELSE Append(kept, Head(items)))

Listed(status, type) ==
  IF type = "staged" THEN status.staged
  ELSE IF type = "modified" THEN status.staged \o status.modified
  ELSE status.staged \o status.modified \o status.untracked

\* C12: for each review type, filesForReview returns the paths of the
\* lists the type names (staged; staged and modified; staged, modified and
\* untracked) that have a reviewable extension, in first-seen order, with a
\* path left out when an earlier one equals it ignoring case.
C12_SelectionContents ==
  \A type \in ReviewTypes :
    type \in DOMAIN sOut =>
      /\ sOut[type].kind = "ok"
      /\ sOut[type].files =
           FirstSeenIgnoringCase(SelectSeq(Listed(sIn, type), IsTsFile), <<>>)

\* C29: every path filesForReview returns is, character for character, one
\* of the paths of the staged, modified or untracked list of the snapshot:
\* selecting never changes the spelling or the case of a path.
C29_PathsKeepTheirSpelling ==
  \A type \in DOMAIN sOut :
    sOut[type].kind = "ok" =>
      \A file \in Elements(sOut[type].files) :
        file \in Elements(sIn.staged \o sIn.modified \o sIn.untracked)

----------------------------------------------------------------------------
(* Claims about FileSuitabilityChecker.check (SpecSuit) *)

Checked == "reason" \in DOMAIN cOut

\* the path passes the extension and the exclusion checks
PathPasses == HasSupportedExtension(cIn.path) /\ ~MatchesExcludedPattern(cIn.path)

RejectedAs(text) == ~cOut.suitable /\ cOut.reason.text = text

\* C13: with respect to the size check, content of exactly maxFileSize
\* bytes is accepted and content of exactly maxFileSize + 1 bytes is
\* rejected.
C13_SizeBoundary ==
  Checked /\ PathPasses =>
    /\ cIn.content.bytes = cIn.config.maxFileSize =>
         ~RejectedAs("File too large")
    /\ cIn.content.bytes = cIn.config.maxFileSize + 1 =>
         RejectedAs("File too large")

\* content of exactly maxFileSize bytes, within every other threshold, has
\* been found suitable
C13_Witness ==
  /\ Checked
  /\ cIn.content.bytes = cIn.config.maxFileSize
  /\ cOut.suitable

\* the checks in the order of the specification: whether each fails for the
\* call's arguments, and the text of its reason
OrderedChecks ==
  << [fails |-> ~HasSupportedExtension(cIn.path),
      text |-> "Unsupported file type"],
     [fails |-> MatchesExcludedPattern(cIn.path),
      text |-> "File matches excluded pattern"],
     [fails |-> cIn.content.bytes > cIn.config.maxFileSize,
      text |-> "File too large"],
     [fails |-> cIn.content.lines > cIn.config.maxLines,
      text |-> "Too many lines"],
     [fails |-> cIn.content.functions > cIn.config.maxFunctions,
      text |-> "Too many functions"],
     [fails |-> cIn.content.classes > cIn.config.maxClasses,
      text |-> "Too many classes"] >>

Failing == { k \in DOMAIN OrderedChecks : OrderedChecks[k].fails }

\* C14: check goes through extension, exclusion patterns, byte size, line
\* count, function count and class count in this order and stops at the
\* first failure: the reason returned is that of the earliest failing check,
\* and the file is suitable exactly when no check fails.
C14_EarliestFailureWins ==
  Checked =>
    IF Failing = {} THEN cOut.suitable
    ELSE \E k \in Failing :
           /\ \A m \in Failing : k <= m
           /\ RejectedAs(OrderedChecks[k].text)

\* a call for which the size, line, function and class checks all fail has
\* returned the reason of the size check
C14_Witness ==
  /\ Checked
  /\ {3, 4, 5, 6} \subseteq Failing
  /\ RejectedAs("File too large")

ThresholdTexts == {"File too large", "Too many lines", "Too many functions",
                   "Too many classes"}

\* a rejection that carries a reason, which for a threshold names the
\* actual value and the configured one
ExplainedRejection(result, config, content) ==
  /\ result.reason.text # ""
  /\ result.reason.text = "File too large" =>
       result.reason.args = <<content.bytes, config.maxFileSize>>
  /\ result.reason.text = "Too many lines" =>
       result.reason.args = <<content.lines, config.maxLines>>
  /\ result.reason.text = "Too many functions" =>
       result.reason.args = <<content.functions, config.maxFunctions>>
  /\ result.reason.text = "Too many classes" =>
       result.reason.args = <<content.classes, config.maxClasses>>

\* the file at the resolved path of a selected file passes every check
\* before the line count and has more lines than maxLines
TooManyLines(filePath) ==
  LET content == Disk(PathResolve(<<xIn.repositoryPath, filePath>>)).content
  IN /\ HasSupportedExtension(filePath) /\ ~MatchesExcludedPattern(filePath)
     /\ content.bytes <= DefaultConfig.maxFileSize
     /\ content.lines > DefaultConfig.maxLines

\* C15: every unsuitable SuitabilityResult carries a reason, which for a
\* threshold rejection names the actual and the configured value; in a run,
\* a selected file that was read and has more than maxLines lines gets
\* status skipped with exactly the reason check gave, next to whatever the
\* other files get.  (The first conjunct does not depend on the state and is
\* evaluated once per run over an empty tree.)
C15_ReasonExplainsRejection ==
  /\ xPc = "start" /\ wTree = <<>> =>
       \A config \in ConfigPool, path \in SuitPaths :
         \A content \in ContentPool(config) :
           LET result == SuitabilityCheck(config, path, content)
           IN ~result.suitable =>
                ExplainedRejection(result, config, content)
  /\ \A i \in Filled(dValues) :
       /\ rTask[i].content # NoContent /\ dValues[i].status = "skipped" =>
            /\ ExplainedRejection(dValues[i], DefaultConfig, rTask[i].content)
            /\ dValues[i].reason =
                 SuitabilityCheck(DefaultConfig, dFiles[i],
                                  rTask[i].content).reason
       /\ rTask[i].content # NoContent /\ TooManyLines(dFiles[i]) =>
            /\ dValues[i].status = "skipped"
            /\ dValues[i].reason =
                 Msg("Too many lines",
                     <<rTask[i].content.lines, DefaultConfig.maxLines>>)
  /\ xPc = "done" => xOut.files = dValues

\* a run has returned b.ts skipped for its 3000 lines against 2500 and
\* a.ts reviewed
C15_Witness ==
  /\ xPc = "done"
  /\ \E i, j \in DOMAIN xOut.files :
       /\ xOut.files[i].path = <<"b", ".", "t", "s">>
       /\ xOut.files[i].status = "skipped"
       /\ xOut.files[i].reason.text = "Too many lines"
       /\ xOut.files[i].reason.args = <<3000, 2500>>
       /\ xOut.files[j].path = <<"a", ".", "t", "s">>
       /\ xOut.files[j].status = "reviewed"

Degraded(analysis) ==
  /\ Len(analysis.context) > 0
  /\ analysis.context[1] = "Analysis failed: "

NoFindings(analysis) ==
  /\ analysis.securityIssues = <<>>
  /\ analysis.performanceIssues = <<>>
  /\ analysis.architectureIssues = <<>>
  /\ analysis.logicIssues = <<>>
  /\ analysis.suggestions = <<>>

\* C16: performAnalysis never throws: whichever of building the prompt,
\* calling the backend and parsing the response fails, it returns a degraded
\* result whose context explains the failure and whose five lists are empty;
\* a file analysed so, once returned, has status reviewed and carries that
\* result.
C16_PerformAnalysisNeverThrows ==
  \A i \in DOMAIN rTask :
    LET performed == rTask[i].performed
    IN /\ performed.kind # "throw"
       /\ performed.kind = "ok" =>
            /\ Degraded(performed.result) =>
                 /\ Len(performed.result.context) > 1
                 /\ NoFindings(performed.result)
            /\ rTask[i].pc \in {"return", "done"} =>
                 /\ rTask[i].result.status = "reviewed"
                 /\ rTask[i].result.analysis = performed.result

\* a file whose backend call failed has been returned as reviewed with the
\* degraded analysis
C16_Witness ==
  \E i \in DOMAIN rTask :
    /\ rTask[i].pc = "done"
    /\ rTask[i].performed.kind = "ok"
    /\ rTask[i].performed.result.context =
         <<"Analysis failed: ", "backend error">>
    /\ dValues[i].status = "reviewed"

\* the orchestrator is to create a backend-delegating strategy and has no
\* backend client
BackendWithoutClient ==
  /\ xIn.analyzer.analysisType \in AnalysisTypes \ {"static"}
  /\ xIn.analyzer.aiClient = "none"

\* C17: when a backend-delegating strategy is requested and no backend
\* client is configured, the run raises a configuration error before any
\* existence check, stat or read of a selected file, and does not return a
\* result.
C17_MissingClientRaisesFirst ==
  BackendWithoutClient =>
    /\ ioLog = {}
    /\ xPc # "done"

\* C18: an invalid review type and an invalid analysis type each make
\* execute reject, no file being processed and no result returned.
C18_ConfigurationErrorsAbort ==
  (xIn.reviewType \notin ReviewTypes \cup {"none"}
     \/ xIn.analysisType \notin AnalysisTypes \cup {"none"}) =>
    /\ rTask = <<>>
    /\ xPc # "done"

\* the texts of the underlying subprocess and filesystem exceptions
RawTexts == { "fatal: not a git repository", "fatal: index file corrupt",
              "EACCES" }

\* C19: neither the error execute raises when a status command fails nor
\* the reason of a ReviewedFile with status error embeds the message of the
\* underlying exception or the absolute path the file resolved to.
C19_GeneralizedMessages ==
  /\ xPc = "rejected" =>
       \A k \in DOMAIN xOut.msg : xOut.msg[k] \notin RawTexts
  /\ \A i \in Filled(dValues) :
       dValues[i].status = "error" =>
         \A k \in DOMAIN dValues[i].reason.args :
           /\ dValues[i].reason.args[k] \notin RawTexts
           /\ rTask[i].fullPath # <<>> =>
                dValues[i].reason.args[k] # rTask[i].fullPath

\* the file a selected path resolved to is missing, cannot be statted,
\* cannot be read, or is larger than the pre-read limit
FileAccessFailure(i) ==
  LET file == Disk(rTask[i].fullPath)
  IN /\ rTask[i].fullPath # <<>>
     /\ \/ ~file.exists
        \/ ~file.statOk
        \/ ~file.readOk
        \/ file.size > MaxReadSize

\* C20: a selected file whose resolved path does not exist, cannot be
\* statted, is unreadable or is oversized at the filesystem layer is
\* recorded as inaccessible.
C20_AccessFailuresInaccessible ==
  \A i \in Filled(dValues) :
    FileAccessFailure(i) => dValues[i].status = "inaccessible"

----------------------------------------------------------------------------
(* Claims about SafePathPolicy.resolve (SpecPath) *)

\* C7: resolve throws for every candidate whose location is not contained
\* in base by segments, and for every candidate whose location is contained
\* in base it returns a path that has base as a prefix.
C7_ResolveContract ==
  pOut.kind # "none" =>
    IF ContainedIn(pBase, pCand)
    THEN pOut.kind = "ok" /\ StartsWith(pOut.path, PathResolve(<<pBase>>))
    ELSE pOut.kind = "throw"

\* a relative candidate whose location is inside base
NonEscaping(base, cand) == ~IsAbsolute(cand) /\ ContainedIn(base, cand)

\* C30: for a fixed base, resolve is injective on the relative candidates
\* that do not escape: two candidates whose normalized forms differ never
\* resolve to the same absolute path, also when one of them begins with the
\* last segments of base.
C30_ResolveInjective ==
  (pOut.kind = "ok" /\ NonEscaping(pBase, pCand)) =>
    \A other \in CandPool :
      (NonEscaping(pBase, other) /\ Normalize(other) # Normalize(pCand)) =>
        LET resolved == SafeResolve(pBase, other)
        IN resolved.kind = "ok" => resolved.path # pOut.path

----------------------------------------------------------------------------
(* Claims about NodeGitClient.status (SpecGit) *)

Contains(list, item) == \E k \in 1..Len(list) : list[k] = item

\* the path field of an entry's porcelain line: the text after the two
\* status characters and the space
PathField(e) ==
  IF Len(e.orig) > 0 THEN e.orig \o <<" ", "-", ">", " ">> \o e.path
  ELSE e.path

StatusDone == gPc = "status" /\ gOut.kind = "ok"

\* C9: for every line of the listing, with codes X and Y, the path parsed
\* from the line is in staged iff X is A, M or R, in modified iff Y is M, in
\* untracked iff X and Y are both ?, and in deleted iff X or Y is D.
C9_Classification ==
  StatusDone =>
    \A i \in 1..Len(gIn) :
      LET e == gIn[i]
          p == PathField(e)
      IN /\ Contains(gOut.staged, p) <=> e.x \in {"A", "M", "R"}
         /\ Contains(gOut.modified, p) <=> e.y = "M"
         /\ Contains(gOut.untracked, p) <=> (e.x = "?" /\ e.y = "?")
         /\ Contains(gOut.deleted, p) <=> (e.x = "D" \/ e.y = "D")

\* a listing with an `MM` line and a `??` line has been parsed: the first
\* path is both staged and modified, the second only untracked
C9_Witness ==
  /\ StatusDone
  /\ Len(gIn) = 2
  /\ gIn[1].x = "M" /\ gIn[1].y = "M"
  /\ gIn[2].x = "?" /\ gIn[2].y = "?"
  /\ Contains(gOut.staged, gIn[1].path)
  /\ Contains(gOut.modified, gIn[1].path)
  /\ gOut.untracked = <<gIn[2].path>>

AllListed == gOut.staged \o gOut.modified \o gOut.untracked \o gOut.deleted

\* C10: for a line in the rename form `old -> new`, the status lists hold
\* the new path wherever they hold the line, and hold neither the old path
\* nor the text `old -> new`.
C10_RenameKeepsNewPath ==
  StatusDone =>
    \A i \in 1..Len(gIn) :
      LET e == gIn[i]
      IN Len(e.orig) > 0 =>
           /\ Contains(gOut.staged, e.path)
           /\ ~Contains(AllListed, e.orig)
           /\ ~Contains(AllListed, e.orig \o <<" ", "-", ">", " ">> \o e.path)

\* C26: within one run the reviewed files are a function of the status the
\* result reports: however the working tree changes while execute runs,
\* the paths of the result's files are the selection computed from the
\* result's gitStatus and the review type.
C26_FilesFollowReportedStatus ==
  xPc = "done" =>
    LET sel == FilesForReview(xOut.gitStatus, xIn.reviewType)
    IN /\ sel.kind = "ok"
       /\ [i \in DOMAIN xOut.files |-> xOut.files[i].path] = sel.files

\* C27: the content of a file larger than 1 MiB is never read: whenever
\* read is invoked the file is at most 1048576 bytes at that moment,
\* however the file changes during reviewFile, and a file stat reports
\* above the limit gets a status other than reviewed and is not read.
C27_NeverReadsOversized ==
  /\ \A rec \in ioLog : rec.op = "read" => rec.size <= MaxReadSize
  /\ \A i \in DOMAIN rTask :
       (rTask[i].size > MaxReadSize /\ rTask[i].pc \in {"return", "done"}) =>
         /\ rTask[i].result.status \in {"skipped", "inaccessible", "error"}
         /\ \A rec \in ioLog : ~(rec.task = i /\ rec.op = "read")

\* C25: every file a run analyses is analysed by the strategy the factory
\* creates for the analysisType given to that execute call, whatever type
\* the analyzer of the use case was constructed with.
C25_ExecuteTypeSelectsStrategy ==
  \A i \in DOMAIN rTask :
    rTask[i].performed.kind = "ok" =>
      LET named == CreateStrategy(xIn.analysisType, xIn.analyzer.aiClient)
      IN /\ named.kind = "ok"
         /\ rTask[i].performed.strategy = named.class

\* C23: in status, a missing upstream leaves ahead = 0 and behind = 0 and
\* does not fail the call, and nothing but the missing upstream is treated
\* so: when the ahead/behind query fails in another way, status fails.
C23_FallbackOnlyWithoutUpstream ==
  gPc = "status" =>
    /\ (gAb = "noUpstream" /\ gOut.kind = "ok") =>
         gOut.ahead = 0 /\ gOut.behind = 0
    /\ gAb = "noUpstream" =>
         (gOut.kind = "throw" => gOut.msg[2] = PorcelainFail.raw)
    /\ gAb = "otherFailure" => gOut.kind = "throw"

----------------------------------------------------------------------------
(* Claims about DependencyContainer (SpecContainer) *)

\* C28: after updateConfig(c), every use case getCodeReviewUseCase returns
\* applies the thresholds and the concurrency of c, also when a use case
\* for the same repository path and analysis type was cached before the
\* update.
C28_UseCaseFollowsConfig ==
  kUseCase.kind = "returned" =>
    /\ kUseCase.useCase.suitabilityPolicy.config = kConfig
    /\ kUseCase.useCase.concurrencyLimit = kConfig.concurrency

----------------------------------------------------------------------------
(* Claims about the analysis strategies (SpecAnalyze) *)

BackendDelegating ==
  { "CodexAnalysisStrategy", "WebAccessibilityAnalysisStrategy",
    "ToxicArchitectAnalysisStrategy" }

\* a backend-delegating strategy was created with a client, and neither
\* its prompt, its backend nor its parser failed
BackendAnswered ==
  /\ aOut.kind = "returned"
  /\ aOut.performed.strategy \in BackendDelegating
  /\ aIn.steps.throws = "nothing"

RanStrategy ==
  [class |-> aOut.performed.strategy, aiClient |-> aIn.analyzer.aiClient]

\* C21: a backend-delegating strategy constructed with an AIClient sends the
\* prompt it built to the backend through exactly one analyze(prompt) call,
\* and the result is parsed from the text that call returns: it is not a
\* degraded failure result.
C21_SingleAnalyzeCall ==
  BackendAnswered =>
    /\ Len(aOut.performed.calls) = 1
    /\ aOut.performed.calls[1].method = "analyze"
    /\ aOut.performed.calls[1].prompt = aOut.performed.prompt
    /\ ~Degraded(aOut.analysis)
    /\ aOut.analysis = ParseResponse(RanStrategy, aIn.steps.response)

\* a heading one of the strategy's branches names
Recognized(class, sectionName) ==
  CASE class = "CodexAnalysisStrategy" -> CodexList(sectionName) # "none"
    [] class = "WebAccessibilityAnalysisStrategy" ->
         AccessibilityList(sectionName) # "none"
    [] class = "ToxicArchitectAnalysisStrategy" ->
         LET normalizedSection == Trim(ToLowerCase(sectionName))
         IN \/ isSolidViolation(normalizedSection)
            \/ isCleanCodeViolation(normalizedSection)
            \/ isCodeQualityIssue(normalizedSection)
            \/ isFrontendEssential(normalizedSection)
            \/ isSuggestion(normalizedSection)

\* C22: when codex, accessibility or toxic-architect parses a response by
\* its headings, the content of every section whose heading it does not
\* recognize is among the suggestions of the result.
C22_UnrecognizedToSuggestions ==
  (BackendAnswered /\ ~Degraded(aOut.analysis)) =>
    \A sec \in Elements(SectionsOf(aOut.performed.strategy,
                                   ExtractAnalysis(aIn.steps.response))) :
      ~Recognized(aOut.performed.strategy, sec.sectionName) =>
        Trim(sec.sectionContent) \in Elements(aOut.analysis.suggestions)

\* C24: the prompt a backend-delegating strategy sends to the backend has
\* the section that asks for suggestions exactly when the call was made
\* with includeSuggestions = true.
C24_SuggestionsFlagReachesBackend ==
  aOut.kind = "returned" =>
    \A k \in DOMAIN aOut.performed.calls :
      aOut.performed.calls[k].method \in {"run", "analyze"} =>
        aOut.performed.calls[k].prompt.suggestionsSection
          = aIn.options.includeSuggestions

====
